---- MODULE Spec2Model ----
(***************************************************************************)
(* TRTS, The Race Timing Solution: the race database (runners, results,    *)
(* race_type), the live timing session of the console and of the GUI, the  *)
(* admin edit of the web app, and the result reports of the three          *)
(* front-ends and of the scoring helper the test suite ships.              *)
(***************************************************************************)
EXTENDS Integers, Sequences, FiniteSets, TLC

VARIABLES
    frontend,         \* which program drives the session: "console" or "gui"
    db_filename,      \* DB_FILENAME / self.db_path: the type code in the file's name
    race_type,        \* RACE_TYPE / self.race_type, the stored discriminator
    runners,          \* table runners: bib -> [name, team, age]
    results,          \* table results, in id order: [id, bib, finish_time, race_date]
    uncommitted,      \* runners rows written on the GUI's connection, not yet committed
    now,              \* wall clock, in ticks
    race_started,     \* console global; GUI: the timing window is presented
    race_stopped,     \* console global; GUI: the timing window is destroyed
    race_start_time,  \* console global race_start_time; GUI closure start_time
    race_date,        \* GUI closure race_date (the console keeps none)
    finish_count,     \* local finish_count of start_race / of the timing window
    session,          \* number of start_race invocations so far
    entered,          \* text read by the last step: input() / entry.get_text()
    confirm,          \* answers the last step read at its [y/N] prompts
    report            \* the report the last step produced, if any

vars == <<frontend, db_filename, race_type, runners, results, uncommitted, now, race_started, race_stopped,
          race_start_time, race_date, finish_count, session, entered, confirm, report>>

dbVars == <<db_filename, race_type, runners, results, uncommitted>>
sessionVars == <<race_started, race_stopped, race_start_time, race_date,
                 finish_count, session>>
inputVars == <<entered, confirm>>

----------------------------------------------------------------------------
(* Bounds *)

MaxFinishers == 11      \* rows of the results table in the scoring scenarios
MaxUnknown == 1         \* of these, rows whose bib has no runners row
MaxResults == 2         \* rows of the results table in the timing scenarios
MaxClock == 1           \* ticks the wall clock advances
MaxSessions == 2        \* start_race invocations
TicksPerDay == 1        \* ticks in a calendar day

(* Program constants *)

MinTeamSize == 5        \* len(runners) >= 5
NumDisplacers == 2      \* runners[5:7]
Inf == 1000000          \* float('inf'): above every place

TeamNames == {"A", "B"}
NULL == "NULL"
\* the age column when it is NULL (None in Python)
NoAge == 0 - 1

----------------------------------------------------------------------------
(* Python and SQL helpers *)

Min2(a, b) == IF a < b THEN a ELSE b

\* s[lo:hi] of Python, 0-based, hi exclusive, clipped to the list
Slice(s, lo, hi) ==
    IF Min2(hi, Len(s)) <= lo THEN << >> ELSE SubSeq(s, lo + 1, Min2(hi, Len(s)))

RECURSIVE SumSeq(_)
SumSeq(s) == IF s = << >> THEN 0 ELSE Head(s) + SumSeq(Tail(s))

\* Python's tuple comparison a < b on tuples of numbers of equal length
RECURSIVE LexLess(_, _)
LexLess(a, b) ==
    IF a = << >> \/ b = << >> THEN FALSE
    ELSE IF Head(a) < Head(b) THEN TRUE
    ELSE IF Head(a) > Head(b) THEN FALSE
    ELSE LexLess(Tail(a), Tail(b))

\* one step of a sort that is not stable: x goes before the elements of its
\* own key
RECURSIVE InsertBeforeEqual(_, _)
InsertBeforeEqual(sorted, x) ==
    IF sorted = << >> THEN <<x>>
    ELSE IF LexLess(x.key, sorted[Len(sorted)].key) \/ x.key = sorted[Len(sorted)].key
         THEN Append(InsertBeforeEqual(SubSeq(sorted, 1, Len(sorted) - 1), x),
                     sorted[Len(sorted)])
    ELSE Append(sorted, x)

\* one step of a stable sort: x goes behind every element whose key is not
\* greater than its own
RECURSIVE InsertByKey(_, _)
InsertByKey(sorted, x) ==
    IF sorted = << >> THEN <<x>>
    ELSE IF LexLess(x.key, sorted[Len(sorted)].key)
         THEN Append(InsertByKey(SubSeq(sorted, 1, Len(sorted) - 1), x), sorted[Len(sorted)])
    ELSE Append(sorted, x)

\* list.sort(key=...) and ORDER BY: a stable sort of records by their .key
RECURSIVE StableSort(_)
StableSort(s) ==
    IF s = << >> THEN << >>
    ELSE InsertByKey(StableSort(SubSeq(s, 1, Len(s) - 1)), s[Len(s)])

\* the .row of every element, in order
RECURSIVE RowsOf(_)
RowsOf(keyed) ==
    IF keyed = << >> THEN << >> ELSE <<Head(keyed).row>> \o RowsOf(Tail(keyed))

RECURSIVE KeyedByFinishTime(_)
KeyedByFinishTime(rows) ==
    IF rows = << >> THEN << >>
    ELSE <<[key |-> <<Head(rows).finish_time>>, row |-> Head(rows)]>>
         \o KeyedByFinishTime(Tail(rows))

\* an ORDER BY whose rows of equal finish_time come in id order at even
\* clock readings and in reverse id order at odd ones
OrderByFinishTimeTiesByClock(res) ==
    IF now % 2 = 0
    THEN RowsOf(StableSort(KeyedByFinishTime(res)))
    ELSE RowsOf(StableSort(KeyedByFinishTime(
             [k \in 1..Len(res) |-> res[Len(res) + 1 - k]])))

\* SELECT ... FROM results ... ORDER BY finish_time: the rows of the table
\* in ascending finish_time, rows of equal finish_time in id order
OrderByFinishTime(res) == RowsOf(StableSort(KeyedByFinishTime(res)))

Registered(bib) == bib \in DOMAIN runners

\* the columns of runners joined to a row of results, NULL where the bib has
\* no runners row
RECURSIVE JoinRunners(_)
JoinRunners(rows) ==
    IF rows = << >> THEN << >>
    ELSE LET r == Head(rows)
             known == Registered(r.bib)
         IN  <<[id |-> r.id, bib |-> r.bib, finish_time |-> r.finish_time,
                name |-> IF known THEN runners[r.bib].name ELSE NULL,
                team |-> IF known THEN runners[r.bib].team ELSE NULL,
                age |-> IF known THEN runners[r.bib].age ELSE NoAge]>>
             \o JoinRunners(Tail(rows))

\* FROM results LEFT JOIN runners ON results.bib = runners.bib ORDER BY finish_time
LeftJoinRows == JoinRunners(OrderByFinishTime(results))

\* FROM results JOIN runners ON results.bib = runners.bib ORDER BY finish_time
InnerJoinRows ==
    LET IsMatched(r) == Registered(r.bib)
    IN  JoinRunners(SelectSeq(OrderByFinishTime(results), IsMatched))

\* COALESCE(x, d)
Coalesce(x, d) == IF x = NULL THEN d ELSE x

----------------------------------------------------------------------------
(* Team scoring *)

\* teams.setdefault(team, []).append(entry): a dict in insertion order, kept
\* as a sequence of [team, runners]
RECURSIVE SetDefaultAppend(_, _, _)
SetDefaultAppend(teams, team, entry) ==
    IF teams = << >> THEN << [team |-> team, runners |-> <<entry>>] >>
    ELSE IF Head(teams).team = team
         THEN << [team |-> team, runners |-> Append(Head(teams).runners, entry)] >>
              \o Tail(teams)
    ELSE << Head(teams) >> \o SetDefaultAppend(Tail(teams), team, entry)

\* for place, row in enumerate(rows, start): each row with its place, the
\* team column read as COALESCE(team, dflt)
RECURSIVE Enumerate(_, _, _)
Enumerate(rows, start, dflt) ==
    IF rows = << >> THEN << >>
    ELSE <<[place |-> start, bib |-> Head(rows).bib,
            team |-> Coalesce(Head(rows).team, dflt)]>>
         \o Enumerate(Tail(rows), start + 1, dflt)

\* the dict of teams built from placed rows, read first to last
RECURSIVE GroupInto(_, _)
GroupInto(teams, placed) ==
    IF placed = << >> THEN teams
    ELSE GroupInto(SetDefaultAppend(teams, Head(placed).team,
                                    [place |-> Head(placed).place, bib |-> Head(placed).bib]),
                   Tail(placed))

GroupByTeam(placed) == GroupInto(<< >>, placed)

RECURSIVE Places(_)
Places(rs) == IF rs = << >> THEN << >> ELSE <<Head(rs).place>> \o Places(Tail(rs))

\* a threshold one too low: a team of four would score
TeamScoresFlawed(rs) == Len(rs) >= MinTeamSize - 1

\* the scoring condition of every implementation: len(runners) >= 5
TeamScores(rs) == Len(rs) >= MinTeamSize

\* GUI and web: top5 = runners[:5]; displacers = runners[5:7]; score; tiebreak
ScoreEntry(team, rs) ==
    LET top5 == Slice(rs, 0, MinTeamSize)
        displacers == Slice(rs, MinTeamSize, MinTeamSize + NumDisplacers)
        tiebreak == Places(displacers) \o <<Inf, Inf>>
        score == SumSeq(Places(top5))
    IN  [key |-> <<score, tiebreak[1], tiebreak[2]>>,
         row |-> [team |-> team, score |-> score, top5 |-> top5,
                  displacers |-> displacers,
                  tiebreak1 |-> tiebreak[1], tiebreak2 |-> tiebreak[2]]]

\* console: scorers = runners[:5]; total_score; (total_score, team, scorers,
\* runners[5:]), to be sorted by x[0]
ConsoleScoreEntry(team, rs) ==
    LET scorers == Slice(rs, 0, MinTeamSize)
        total_score == SumSeq(Places(scorers))
    IN  [key |-> <<total_score>>,
         row |-> [team |-> team, score |-> total_score, top5 |-> scorers,
                  displacers |-> Slice(rs, MinTeamSize, Len(rs))]]

\* runners.sort(key=lambda x: x[0])
RECURSIVE KeyedByPlace(_)
KeyedByPlace(rs) ==
    IF rs = << >> THEN << >>
    ELSE <<[key |-> <<Head(rs).place>>, row |-> Head(rs)]>> \o KeyedByPlace(Tail(rs))

SortByPlace(rs) == RowsOf(StableSort(KeyedByPlace(rs)))

\* helper: runners sorted by place, top5, displacers, tiebreak1, tiebreak2
HelperScoreEntry(team, runners_) ==
    LET rs == SortByPlace(runners_)
        top5 == Slice(rs, 0, MinTeamSize)
        displacers == Slice(rs, MinTeamSize, MinTeamSize + NumDisplacers)
        score == SumSeq(Places(top5))
        tiebreak1 == IF Len(displacers) > 0 THEN displacers[1].place ELSE Inf
        tiebreak2 == IF Len(displacers) > 1 THEN displacers[2].place ELSE Inf
    IN  [key |-> <<score, tiebreak1, tiebreak2>>,
         row |-> [team |-> team, score |-> score, top5 |-> top5,
                  displacers |-> displacers,
                  tiebreak1 |-> tiebreak1, tiebreak2 |-> tiebreak2]]

\* for team, runners in teams.items(): if len(runners) >= 5: scores.append(...)
RECURSIVE GuiScores(_)
GuiScores(teams) ==
    IF teams = << >> THEN << >>
    ELSE (IF TeamScores(Head(teams).runners)
          THEN <<ScoreEntry(Head(teams).team, Head(teams).runners)>> ELSE << >>)
         \o GuiScores(Tail(teams))

RECURSIVE ConsoleScores(_)
ConsoleScores(teams) ==
    IF teams = << >> THEN << >>
    ELSE (IF TeamScores(Head(teams).runners)
          THEN <<ConsoleScoreEntry(Head(teams).team, Head(teams).runners)>> ELSE << >>)
         \o ConsoleScores(Tail(teams))

RECURSIVE HelperScores(_)
HelperScores(teams) ==
    IF teams = << >> THEN << >>
    ELSE (IF TeamScores(Head(teams).runners)
          THEN <<HelperScoreEntry(Head(teams).team, Head(teams).runners)>> ELSE << >>)
         \o HelperScores(Tail(teams))

\* GUI show_team_results, the scoring part: rows of the LEFT JOIN with
\* COALESCE(runners.team,'UNKNOWN'), enumerate(rows, 1), the scores,
\* scores.sort(key=lambda x: (x[1], x[4], x[5]))
GuiTeamResults ==
    RowsOf(StableSort(GuiScores(GroupByTeam(Enumerate(LeftJoinRows, 1, "UNKNOWN")))))

\* web team_results, the scoring part: the same statements as the GUI's
WebTeamResults ==
    RowsOf(StableSort(GuiScores(GroupByTeam(Enumerate(LeftJoinRows, 1, "UNKNOWN")))))

\* console show_team_results, the scoring part: the inner join, ROW_NUMBER()
\* over it, final_scores.sort(key=lambda x: x[0])
ConsoleTeamResults ==
    RowsOf(StableSort(ConsoleScores(GroupByTeam(Enumerate(InnerJoinRows, 1, NULL)))))

\* the overall place of every row id: its 1-based position in finish order
RECURSIVE PlaceById(_, _, _)
PlaceById(rows, id, i) ==
    IF rows = << >> THEN 0
    ELSE IF Head(rows).id = id THEN i ELSE PlaceById(Tail(rows), id, i + 1)

\* results_data handed to the scoring helper: (team, bib, name, finish_time,
\* place) per finish, in table order, place being the overall place
RECURSIVE ResultsDataOf(_, _)
ResultsDataOf(joined, ordered) ==
    IF joined = << >> THEN << >>
    ELSE <<[place |-> PlaceById(ordered, Head(joined).id, 1), bib |-> Head(joined).bib,
            team |-> Coalesce(Head(joined).team, "UNKNOWN")]>>
         \o ResultsDataOf(Tail(joined), ordered)

ResultsData == ResultsDataOf(JoinRunners(results), OrderByFinishTime(results))

\* TestableScoringSystem.calculate_team_scores
CalculateTeamScores(results_data) ==
    RowsOf(StableSort(HelperScores(GroupByTeam(results_data))))

NoReport == [kind |-> "none"]

----------------------------------------------------------------------------
(* The session is Running between start and stop *)

Running == race_started /\ ~race_stopped

\* a start control that stays reachable while the session is Running
AtMenuWhileTiming(fe) == TRUE

\* the console's menu is reachable only outside start_race's input loop; the
\* GUI's main window only while no modal timing window is open
AtMenu(fe) == ~(frontend = fe /\ Running)

----------------------------------------------------------------------------
(* Reports *)

\* a report offered for every race type
WrongRaceTypeUnchecked(wanted) == FALSE

\* if self.race_type != "cross_country": ... return
WrongRaceType(wanted) == race_type # wanted

\* GUI show_team_results
ShowTeamResultsGui ==
    /\ AtMenu("gui")
    /\ report' =
         IF WrongRaceType("cross_country")
         THEN [kind |-> "error", by |-> "gui", query |-> "team",
               why |-> "wrong_race_type"]
         ELSE IF results = << >>
         THEN [kind |-> "empty", by |-> "gui", query |-> "team"]
         ELSE [kind |-> "team", by |-> "gui", teams |-> GuiTeamResults]
    /\ UNCHANGED <<frontend, now, dbVars, sessionVars, inputVars>>

\* web team_results
ShowTeamResultsWeb ==
    /\ report' =
         IF WrongRaceType("cross_country")
         THEN [kind |-> "error", by |-> "web", query |-> "team",
               why |-> "wrong_race_type"]
         ELSE [kind |-> "team", by |-> "web", teams |-> WebTeamResults]
    /\ UNCHANGED <<frontend, now, dbVars, sessionVars, inputVars>>

\* console main_menu, choice 8 of a cross country race: show_team_results
ShowTeamResultsConsole ==
    /\ AtMenu("console")
    /\ race_type = "cross_country"
    /\ report' =
         IF InnerJoinRows = << >>
         THEN [kind |-> "empty", by |-> "console", query |-> "team"]
         ELSE [kind |-> "team", by |-> "console", teams |-> ConsoleTeamResults]
    /\ UNCHANGED <<frontend, now, dbVars, sessionVars, inputVars>>

\* the test suite's scoring helper, applied to the finishes of the database
ScoreWithHelper ==
    /\ report' = [kind |-> "team", by |-> "helper",
                  teams |-> CalculateTeamScores(ResultsData)]
    /\ UNCHANGED <<frontend, now, dbVars, sessionVars, inputVars>>

----------------------------------------------------------------------------
(* Age groups *)

\* age_groups of the GUI, the web app and the test helpers
AgeGroups ==
    << <<1, 15>>, <<16, 20>>, <<21, 25>>, <<26, 30>>, <<31, 35>>, <<36, 40>>,
       <<41, 45>>, <<46, 50>>, <<51, 55>>, <<56, 60>>, <<61, 65>>, <<66, 70>>,
       <<71, 200>> >>

\* f"{low}-{high}"
RangeName(g) == ToString(g[1]) \o "-" \o ToString(g[2])

\* f"{low}-{high}" if high < 200 else f"{low}+"
HelperGroupName(g) == IF g[2] < 200 THEN RangeName(g) ELSE ToString(g[1]) \o "+"

\* for (low, high) in age_groups: if low <= age <= high: ... break
\* the index of the first band that holds the age, 0 when none does
RECURSIVE FindGroup(_, _, _)
FindGroup(age, groups, k) ==
    IF k > Len(groups) THEN 0
    ELSE IF groups[k][1] <= age /\ age <= groups[k][2] THEN k
    ELSE FindGroup(age, groups, k + 1)

\* results_by_group = {name: [] for (low, high) in age_groups}, in insertion
\* order, with the names of the GUI and the web app
RECURSIVE EmptyGroups(_)
EmptyGroups(groups) ==
    IF groups = << >> THEN << >>
    ELSE <<[group |-> RangeName(Head(groups)), runners |-> << >>]>>
         \o EmptyGroups(Tail(groups))

\* the same dict with the names of the test helpers
RECURSIVE EmptyHelperGroups(_)
EmptyHelperGroups(groups) ==
    IF groups = << >> THEN << >>
    ELSE <<[group |-> HelperGroupName(Head(groups)), runners |-> << >>]>>
         \o EmptyHelperGroups(Tail(groups))

\* results_by_group[name].append(entry)
AppendToGroup(by_group, k, entry) ==
    [by_group EXCEPT ![k].runners = Append(@, entry)]

\* web: age = row['age'] if row['age'] else 0
WebAge(age) == IF age = NoAge \/ age = 0 THEN 0 ELSE age

\* for i, row in enumerate(rows, i): the row appended to the first band
\* that holds its age, with its overall place i; a row of no band is skipped
RECURSIVE GroupRows(_, _, _)
GroupRows(by_group, rows, i) ==
    IF rows = << >> THEN by_group
    ELSE LET r == Head(rows)
             k == FindGroup(r.age, AgeGroups, 1)
         IN  GroupRows(IF k = 0 THEN by_group
                       ELSE AppendToGroup(by_group, k,
                                [place |-> i, bib |-> r.bib, age |-> r.age,
                                 finish_time |-> r.finish_time]),
                       Tail(rows), i + 1)

\* the rows as the web app reads their age
RECURSIVE WithWebAge(_)
WithWebAge(rows) ==
    IF rows = << >> THEN << >>
    ELSE <<[Head(rows) EXCEPT !.age = WebAge(@)]>> \o WithWebAge(Tail(rows))

\* a band listed with the overall place in the place column
WithOverallPlaceOnly(rs, i) ==
    [k \in 1..Len(rs) |->
        [place |-> rs[k].place, group_place |-> rs[k].place, bib |-> rs[k].bib,
         age |-> rs[k].age, finish_time |-> rs[k].finish_time]]

\* for i, runner in enumerate(runners, 1): the place within the band
RECURSIVE WithGroupPlace(_, _)
WithGroupPlace(rs, i) ==
    IF rs = << >> THEN << >>
    ELSE <<[place |-> Head(rs).place, group_place |-> i, bib |-> Head(rs).bib,
            age |-> Head(rs).age, finish_time |-> Head(rs).finish_time]>>
         \o WithGroupPlace(Tail(rs), i + 1)

\* for group, result_list in results_by_group.items(): if result_list: ...
RECURSIVE NonEmptyGroups(_)
NonEmptyGroups(by_group) ==
    IF by_group = << >> THEN << >>
    ELSE (IF Head(by_group).runners # << >>
          THEN <<[group |-> Head(by_group).group,
                  runners |-> WithGroupPlace(Head(by_group).runners, 1)]>>
          ELSE << >>)
         \o NonEmptyGroups(Tail(by_group))

\* low <= age <= high with age None raises TypeError
RaisesTypeError(rows) == \E k \in 1..Len(rows) : rows[k].age = NoAge

\* GUI show_age_group_results, the grouping part
GuiAgeGroupResults == NonEmptyGroups(GroupRows(EmptyGroups(AgeGroups), LeftJoinRows, 1))

\* web age_group_results, the grouping part
WebAgeGroupResults ==
    NonEmptyGroups(GroupRows(EmptyGroups(AgeGroups), WithWebAge(LeftJoinRows), 1))

\* TestableScoringSystem.group_by_age / TestableRaceTimingApp.group_by_age:
\* every band of the dict, empty ones too; the input rows come in finish
\* order, the place of a row being its position
GroupByAge(results_data) == GroupRows(EmptyHelperGroups(AgeGroups), results_data, 1)

\* console show_age_group_results: if age < 20: ... elif age < 30: ...
ConsoleGroupOf(age) ==
    IF age < 20 THEN "Under 20"
    ELSE IF age < 30 THEN "20-29"
    ELSE IF age < 40 THEN "30-39"
    ELSE IF age < 50 THEN "40-49"
    ELSE IF age < 60 THEN "50-59"
    ELSE IF age < 70 THEN "60-69"
    ELSE "70+"

\* group_order
ConsoleGroupOrder == <<"Under 20", "20-29", "30-39", "40-49", "50-59", "60-69", "70+">>

\* JOIN runners ... WHERE ru.age IS NOT NULL ORDER BY r.finish_time
ConsoleAgeRows ==
    LET HasAge(r) == r.age # NoAge
    IN  SelectSeq(InnerJoinRows, HasAge)

\* for i, (...) in enumerate(age_groups[group], 1): the console keeps no
\* overall place
RECURSIVE WithConsoleGroupPlace(_, _)
WithConsoleGroupPlace(rs, i) ==
    IF rs = << >> THEN << >>
    ELSE <<[group_place |-> i, bib |-> Head(rs).bib, age |-> Head(rs).age,
            finish_time |-> Head(rs).finish_time]>>
         \o WithConsoleGroupPlace(Tail(rs), i + 1)

\* for group in group_order: if group in age_groups: ...
RECURSIVE ConsoleGroups(_, _)
ConsoleGroups(order, rows) ==
    IF order = << >> THEN << >>
    ELSE LET InGroup(r) == ConsoleGroupOf(r.age) = Head(order)
             members == SelectSeq(rows, InGroup)
         IN  (IF members # << >>
              THEN <<[group |-> Head(order),
                      runners |-> WithConsoleGroupPlace(members, 1)]>>
              ELSE << >>)
             \o ConsoleGroups(Tail(order), rows)

ConsoleAgeGroupResults == ConsoleGroups(ConsoleGroupOrder, ConsoleAgeRows)

\* GUI show_age_group_results
ShowAgeGroupResultsGui ==
    /\ AtMenu("gui")
    /\ report' =
         IF WrongRaceType("road_race")
         THEN [kind |-> "error", by |-> "gui", query |-> "age",
               why |-> "wrong_race_type"]
         ELSE IF LeftJoinRows = << >>
         THEN [kind |-> "empty", by |-> "gui", query |-> "age"]
         ELSE IF RaisesTypeError(LeftJoinRows)
         THEN [kind |-> "error", by |-> "gui", query |-> "age", why |-> "TypeError"]
         ELSE [kind |-> "age", by |-> "gui", groups |-> GuiAgeGroupResults]
    /\ UNCHANGED <<frontend, now, dbVars, sessionVars, inputVars>>

\* web age_group_results
ShowAgeGroupResultsWeb ==
    /\ report' =
         IF WrongRaceType("road_race")
         THEN [kind |-> "error", by |-> "web", query |-> "age",
               why |-> "wrong_race_type"]
         ELSE [kind |-> "age", by |-> "web", groups |-> WebAgeGroupResults]
    /\ UNCHANGED <<frontend, now, dbVars, sessionVars, inputVars>>

\* console main_menu, choice 8 of a road race: show_age_group_results
ShowAgeGroupResultsConsole ==
    /\ AtMenu("console")
    /\ race_type = "road_race"
    /\ report' =
         IF ConsoleAgeRows = << >>
         THEN [kind |-> "empty", by |-> "console", query |-> "age"]
         ELSE [kind |-> "age", by |-> "console", groups |-> ConsoleAgeGroupResults]
    /\ UNCHANGED <<frontend, now, dbVars, sessionVars, inputVars>>

\* the test suite's grouping helper, applied to the finishes of the database
\* in finish order
GroupWithHelper ==
    /\ report' =
         IF RaisesTypeError(LeftJoinRows)
         THEN [kind |-> "error", by |-> "helper", query |-> "age", why |-> "TypeError"]
         ELSE [kind |-> "age", by |-> "helper", groups |-> GroupByAge(LeftJoinRows)]
    /\ UNCHANGED <<frontend, now, dbVars, sessionVars, inputVars>>

----------------------------------------------------------------------------
(* Text the operator types: sequences of characters *)

Exit == <<"e", "x", "i", "t">>
Status == <<"s", "t", "a", "t", "u", "s">>
Yes == <<"y">>

\* str.lower(), on the letters of the typed tokens
LowerChar(c) ==
    CASE c = "E" -> "e" [] c = "X" -> "x" [] c = "I" -> "i" [] c = "T" -> "t"
      [] c = "Y" -> "y" [] c = "N" -> "n" [] c = "S" -> "s" [] c = "A" -> "a"
      [] c = "U" -> "u" [] OTHER -> c

RECURSIVE Lower(_)
Lower(s) == IF s = << >> THEN << >> ELSE <<LowerChar(Head(s))>> \o Lower(Tail(s))

\* str.strip()
RECURSIVE LStrip(_)
LStrip(s) == IF s # << >> /\ Head(s) = " " THEN LStrip(Tail(s)) ELSE s

RECURSIVE RStrip(_)
RStrip(s) ==
    IF s # << >> /\ s[Len(s)] = " " THEN RStrip(SubSeq(s, 1, Len(s) - 1)) ELSE s

Strip(s) == RStrip(LStrip(s))

Digits == {"0", "1", "2", "3", "4", "5", "6", "7", "8", "9"}

DigitValue(c) ==
    CASE c = "0" -> 0 [] c = "1" -> 1 [] c = "2" -> 2 [] c = "3" -> 3 [] c = "4" -> 4
      [] c = "5" -> 5 [] c = "6" -> 6 [] c = "7" -> 7 [] c = "8" -> 8 [] c = "9" -> 9

RECURSIVE DigitsValue(_, _)
DigitsValue(s, acc) ==
    IF s = << >> THEN acc ELSE DigitsValue(Tail(s), 10 * acc + DigitValue(Head(s)))

AllDigits(s) == s # << >> /\ \A i \in 1..Len(s) : s[i] \in Digits

\* int(text): the value, or ValueError
ValueError == [ok |-> FALSE, value |-> 0]
ParseInt(s) ==
    IF AllDigits(s) THEN [ok |-> TRUE, value |-> DigitsValue(s, 0)]
    ELSE IF s # << >> /\ Head(s) = "-" /\ AllDigits(Tail(s))
         THEN [ok |-> TRUE, value |-> 0 - DigitsValue(Tail(s), 0)]
    ELSE IF s # << >> /\ Head(s) = "+" /\ AllDigits(Tail(s))
         THEN [ok |-> TRUE, value |-> DigitsValue(Tail(s), 0)]
    ELSE ValueError

\* what the operator may type at the bib prompt
Inputs ==
    { Exit, <<" ", "E", "x", "I", "T">>, << >>, <<"1", "x">>, Status,
      <<"1">>, <<" ", "2">> }

\* what the operator may answer to a [y/N] prompt
Answers == { <<" ", "Y">>, <<"n">> }

\* the answer to a prompt the turn does not reach
NotAsked == <<"-">>

\* a prompt whose answer is not looked at
ConfirmedWhateverAnswer(answer) == TRUE

\* confirm = input(...).strip().lower(); if confirm != 'y': ... continue
Confirmed(answer) == Lower(Strip(answer)) = Yes

\* a step that reads nothing at the bib prompt, and asks nothing
NoInput == <<"-">>
NoAnswers == [anyway |-> NotAsked, update |-> NotAsked]
NothingRead == entered' = NoInput /\ confirm' = NoAnswers

NoTime == 0 - 1
NoDate == <<NoTime, NoTime>>

----------------------------------------------------------------------------
(* The race database of the timing scenarios *)

\* runners of the loaded database: bib 1 is registered, bib 2 is not
RunnersOf(type) ==
    IF type = "cross_country"
    THEN (1 :> [name |-> "runner", team |-> "A", age |-> 16])
    ELSE (1 :> [name |-> "runner", team |-> NULL, age |-> 16])

\* strftime('%Y-%m-%d') of an instant: the calendar day, no time of day
DateOf(t) == <<t \div TicksPerDay, NoTime>>

\* datetime.isoformat() of an instant: the calendar day and the time of day
IsoFormat(t) == <<t \div TicksPerDay, t % TicksPerDay>>

\* the id AUTOINCREMENT gives the next row
NextId == IF results = << >> THEN 1 ELSE results[Len(results)].id + 1

\* INSERT INTO results (bib, finish_time, race_date) VALUES (?, ?, ?)
InsertResult(bib, finish_time, date) ==
    Append(results, [id |-> NextId, bib |-> bib, finish_time |-> finish_time,
                     race_date |-> date])

\* UPDATE results SET finish_time = ?, race_date = ? WHERE bib = ?
UpdateResult(bib, finish_time, date) ==
    [i \in 1..Len(results) |->
        IF results[i].bib = bib
        THEN [results[i] EXCEPT !.finish_time = finish_time, !.race_date = date]
        ELSE results[i]]

\* suffix = "cc" if self.race_type == "cross_country" else "rr": the type code
\* in the name YYYYMMDD-##-[cc/rr]-Name.db of a database file
Suffix(type) == IF type = "cross_country" THEN "cc" ELSE "rr"

\* a connection without pending writes to runners
NoRows == << >>

\* the table runners as the GUI's connection reads it: the committed rows
\* with its own pending rows over them
RunnersSeenByGui ==
    [b \in DOMAIN runners \cup DOMAIN uncommitted |->
        IF b \in DOMAIN uncommitted THEN uncommitted[b] ELSE runners[b]]

\* self.conn.commit(): the pending rows become the table
Commit == RunnersSeenByGui

\* SELECT id FROM results WHERE bib = ?  ... fetchone()
AlreadyFinished(bib) == \E i \in 1..Len(results) : results[i].bib = bib

\* DELETE FROM results WHERE id = ? followed by an INSERT of the row with the
\* new bib: the event gets a new id, behind every other
ReinsertWithBib(id, bib) ==
    LET IsOther(r) == r.id # id
        IsAddressed(r) == r.id = id
        addressed == SelectSeq(results, IsAddressed)
    IN  IF addressed = << >> THEN results
        ELSE Append(SelectSeq(results, IsOther),
                    [addressed[1] EXCEPT !.id = NextId, !.bib = bib])

\* UPDATE results SET bib = ? WHERE id = ?
UpdateBib(id, bib) ==
    [i \in 1..Len(results) |->
        IF results[i].id = id THEN [results[i] EXCEPT !.bib = bib] ELSE results[i]]

----------------------------------------------------------------------------
(* The live timing session *)

NotStarted == ~race_started /\ ~race_stopped
Stopped == race_stopped

\* time passes
Tick ==
    /\ now < MaxClock
    /\ now' = now + 1
    /\ NothingRead
    /\ report' = NoReport
    /\ UNCHANGED <<frontend, dbVars, sessionVars>>

\* console start_race, up to the first prompt
StartRaceConsole ==
    /\ frontend = "console"
    /\ AtMenu("console")
    /\ session < MaxSessions
    /\ Cardinality(DOMAIN runners) # 0
    /\ race_started' = TRUE
    /\ race_stopped' = FALSE
    /\ race_start_time' = now
    /\ finish_count' = 0
    /\ session' = session + 1
    /\ NothingRead
    /\ report' = NoReport
    /\ UNCHANGED <<frontend, now, dbVars, race_date>>

\* the prompt read without .lower(): "EXIT" is no command
ConsoleInputCaseSensitive(text) == Strip(text)

\* user_input = input("Bib number: ").strip().lower()
ConsoleInput(text) == Lower(Strip(text))

\* console start_race, one turn of the input loop: the text typed at the bib
\* prompt and the answers given to the prompts this turn asks (NotAsked for a
\* prompt it does not reach)
ConsoleBibEntry(text, anyway, update) ==
    LET user_input == ConsoleInput(text)
        bib == ParseInt(user_input)
        finish_time == now - race_start_time
        current_time == IsoFormat(now)
        exits == user_input = Exit
        skipped == user_input = Status \/ user_input = << >> \/ ~bib.ok
        unknown == ~exits /\ ~skipped /\ ~Registered(bib.value)
        declined == unknown /\ ~Confirmed(anyway)
        finished == ~exits /\ ~skipped /\ ~declined /\ AlreadyFinished(bib.value)
        kept == finished /\ ~Confirmed(update)
    IN  /\ frontend = "console"
        /\ Running
        /\ (anyway = NotAsked) <=> ~unknown
        /\ (update = NotAsked) <=> ~finished
        /\ entered' = text
        /\ confirm' = [anyway |-> anyway, update |-> update]
        /\ report' = NoReport
        /\ IF exits
           THEN /\ race_stopped' = TRUE
                /\ race_started' = FALSE
                /\ UNCHANGED <<results, finish_count>>
           ELSE IF skipped \/ declined \/ kept
           THEN UNCHANGED <<results, finish_count, race_started, race_stopped>>
           ELSE IF finished
           THEN /\ results' = UpdateResult(bib.value, finish_time, current_time)
                /\ UNCHANGED <<finish_count, race_started, race_stopped>>
           ELSE /\ Len(results) < MaxResults
                /\ results' = InsertResult(bib.value, finish_time, current_time)
                /\ finish_count' = finish_count + 1
                /\ UNCHANGED <<race_started, race_stopped>>
        /\ UNCHANGED <<frontend, now, db_filename, race_type, runners, uncommitted, race_start_time,
                       race_date, session>>

\* console start_race, KeyboardInterrupt at the prompt: "Stop timing? [y/N]"
ConsoleInterrupt(stop) ==
    /\ frontend = "console"
    /\ Running
    /\ NothingRead
    /\ report' = NoReport
    /\ IF Confirmed(stop)
       THEN /\ race_stopped' = TRUE
            /\ race_started' = FALSE
       ELSE UNCHANGED <<race_started, race_stopped>>
    /\ UNCHANGED <<frontend, now, dbVars, race_start_time, race_date, finish_count,
                   session>>

\* GUI start_race and open_race_timing_window
StartRaceGui ==
    /\ frontend = "gui"
    /\ AtMenu("gui")
    /\ session < MaxSessions
    /\ race_started' = TRUE
    /\ race_stopped' = FALSE
    /\ race_start_time' = now
    /\ race_date' = DateOf(now)
    /\ finish_count' = 0
    /\ session' = session + 1
    /\ NothingRead
    /\ report' = NoReport
    /\ UNCHANGED <<frontend, now, dbVars>>

\* GUI on_bib_entry_activate
GuiBibEntry(text) ==
    LET bib_text == Strip(text)
        elapsed_seconds == now - race_start_time
        parsed == ParseInt(bib_text)
        bib_number == IF bib_text # << >> /\ parsed.ok THEN parsed.value ELSE 0
    IN  /\ frontend = "gui"
        /\ Running
        /\ entered' = text
        /\ confirm' = NoAnswers
        /\ report' = NoReport
        /\ IF Lower(bib_text) = Exit
           THEN /\ race_stopped' = TRUE
                /\ race_started' = FALSE
                /\ UNCHANGED <<results, finish_count, runners, uncommitted>>
           ELSE /\ Len(results) < MaxResults
                /\ finish_count' = finish_count + 1
                /\ results' = InsertResult(bib_number, elapsed_seconds, race_date)
                /\ runners' = Commit
                /\ uncommitted' = NoRows
                /\ UNCHANGED <<race_started, race_stopped>>
        /\ UNCHANGED <<frontend, now, db_filename, race_type, race_start_time, race_date,
                       session>>

\* GUI on_window_close: the timing window is closed by its close button
GuiWindowClose ==
    /\ frontend = "gui"
    /\ Running
    /\ race_stopped' = TRUE
    /\ race_started' = FALSE
    /\ NothingRead
    /\ report' = NoReport
    /\ UNCHANGED <<frontend, now, dbVars, race_start_time, race_date, finish_count,
                   session>>

\* web edit_race, POST with one field bib_<id> = value (a POST that changes
\* no row is a stuttering step)
EditRace(id, value) ==
    /\ results' = UpdateBib(id, value)
    /\ results' # results
    /\ NothingRead
    /\ report' = NoReport
    /\ UNCHANGED <<frontend, now, db_filename, race_type, runners, uncommitted,
                   sessionVars>>

----------------------------------------------------------------------------
(* Individual results *)

\* for i, (bib, name, ...) in enumerate(rows, 1): place, bib and the name shown
RECURSIVE IndividualRows(_, _, _)
IndividualRows(rows, place, dflt) ==
    IF rows = << >> THEN << >>
    ELSE <<[place |-> place, bib |-> Head(rows).bib,
            name |-> Coalesce(Head(rows).name, dflt),
            finish_time |-> Head(rows).finish_time]>>
         \o IndividualRows(Tail(rows), place + 1, dflt)

\* console show_individual_results
ShowIndividualResultsConsole ==
    /\ AtMenu("console")
    /\ LET rows == IF race_type \in {"cross_country", "road_race"}
                   THEN InnerJoinRows
                   ELSE JoinRunners(OrderByFinishTime(results))
       IN  report' =
             IF rows = << >>
             THEN [kind |-> "empty", by |-> "console", query |-> "individual"]
             ELSE [kind |-> "individual", by |-> "console",
                   rows |-> IndividualRows(rows, 1, NULL)]
    /\ UNCHANGED <<frontend, now, dbVars, sessionVars, inputVars>>

\* GUI show_individual_results
ShowIndividualResultsGui ==
    /\ AtMenu("gui")
    /\ report' =
         IF LeftJoinRows = << >>
         THEN [kind |-> "empty", by |-> "gui", query |-> "individual"]
         ELSE [kind |-> "individual", by |-> "gui",
               rows |-> IndividualRows(LeftJoinRows, 1, "UNKNOWN")]
    /\ UNCHANGED <<frontend, now, dbVars, sessionVars, inputVars>>

\* web individual_results: runner.get(...) on a sqlite3.Row raises
\* AttributeError on the first row, caught by except Exception (flash,
\* redirect to the index page)
ShowIndividualResultsWeb ==
    /\ report' =
         IF LeftJoinRows = << >>
         THEN [kind |-> "individual", by |-> "web", rows |-> << >>]
         ELSE [kind |-> "error", by |-> "web", query |-> "individual",
               why |-> "AttributeError"]
    /\ UNCHANGED <<frontend, now, dbVars, sessionVars, inputVars>>

----------------------------------------------------------------------------
(* The timing scenarios: a database with its runners loaded and no results *)

\* the bib an admin types into a row of the edit form
EditValues == {1}

Init ==
    /\ frontend \in {"console", "gui"}
    /\ race_type = "cross_country"
    /\ runners = RunnersOf(race_type)
    /\ results = << >>
    /\ uncommitted = NoRows
    /\ db_filename = Suffix(race_type)
    /\ now = 0
    /\ race_started = FALSE
    /\ race_stopped = FALSE
    /\ race_start_time = NoTime
    /\ race_date = NoDate
    /\ finish_count = 0
    /\ session = 0
    /\ entered = NoInput
    /\ confirm = NoAnswers
    /\ report = NoReport

Next ==
    \/ Tick
    \/ StartRaceConsole
    \/ \E text \in Inputs : \E anyway, update \in Answers \cup {NotAsked} :
           ConsoleBibEntry(text, anyway, update)
    \/ \E stop \in Answers : ConsoleInterrupt(stop)
    \/ StartRaceGui
    \/ \E text \in Inputs : GuiBibEntry(text)
    \/ GuiWindowClose
    \/ \E i \in 1..Len(results) : \E value \in EditValues : EditRace(results[i].id, value)

Spec == Init /\ [][Next]_vars

----------------------------------------------------------------------------
(* Scoring scenarios: a finished cross country race of MaxFinishers finishes, *)
(* bib i finishing i-th, every runner in one of two teams or unregistered    *)

UnknownSets(n) == {U \in SUBSET (1..n) : Cardinality(U) <= MaxUnknown}

InitScore ==
    /\ frontend = "console"
    /\ race_type = "cross_country"
    /\ \E n \in {MaxFinishers} : \E U \in UnknownSets(n) :
         \E teamOf \in [(1..n) \ U -> TeamNames] :
           /\ runners = [b \in (1..n) \ U |->
                            [name |-> "runner", team |-> teamOf[b], age |-> 16]]
           /\ results = [i \in 1..n |->
                            [id |-> i, bib |-> i, finish_time |-> i, race_date |-> DateOf(0)]]
    /\ uncommitted = NoRows
    /\ db_filename = Suffix(race_type)
    /\ now = 0
    /\ race_started = FALSE
    /\ race_stopped = FALSE
    /\ race_start_time = NoTime
    /\ race_date = NoDate
    /\ finish_count = 0
    /\ session = 0
    /\ entered = NoInput
    /\ confirm = NoAnswers
    /\ report = NoReport

\* each implementation scores the scenario; the database does not change, so
\* a report asked for after another one is the report asked for first
NextScore ==
    /\ report = NoReport
    /\ \/ ShowTeamResultsGui
       \/ ShowTeamResultsWeb
       \/ ShowTeamResultsConsole
       \/ ScoreWithHelper

SpecScore == InitScore /\ [][NextScore]_vars

----------------------------------------------------------------------------
(* Result scenarios: a ledger a timing scenario can leave, of the          *)
(* registered bib 1 and the unregistered bib 2, listed by each front-end    *)

LedgerBibs == {1, 2}

Ledgers(n) ==
    [1..n -> [bib : LedgerBibs, finish_time : 0..MaxClock]]

InitResults ==
    /\ frontend = "console"
    /\ race_type \in {"cross_country", "road_race"}
    /\ runners = RunnersOf(race_type)
    /\ \E n \in 0..MaxResults : \E rows \in Ledgers(n) :
         results = [i \in 1..n |->
                       [id |-> i, bib |-> rows[i].bib,
                        finish_time |-> rows[i].finish_time, race_date |-> DateOf(0)]]
    /\ uncommitted = NoRows
    /\ db_filename = Suffix(race_type)
    /\ now = 0
    /\ race_started = FALSE
    /\ race_stopped = FALSE
    /\ race_start_time = NoTime
    /\ race_date = NoDate
    /\ finish_count = 0
    /\ session = 0
    /\ entered = NoInput
    /\ confirm = NoAnswers
    /\ report = NoReport

NextResults ==
    \/ ShowIndividualResultsConsole
    \/ ShowIndividualResultsGui
    \/ ShowIndividualResultsWeb
    \/ ShowTeamResultsConsole
    \/ ShowTeamResultsGui
    \/ ShowTeamResultsWeb
    \/ ShowAgeGroupResultsConsole
    \/ ShowAgeGroupResultsGui
    \/ ShowAgeGroupResultsWeb

SpecResults == InitResults /\ [][NextResults]_vars

----------------------------------------------------------------------------
(* CSV import of runners into a cross country database *)

MaxBatch == 2

\* the bib and name cells of a data row; the other cells are well-formed
BibCells == {<<"1">>, <<" ", "2">>, <<"1", "x">>}
NameCells == {"runner", "other"}
CsvRows == [bib : BibCells, name : NameCells]

\* the data rows of a CSV file, after its header line
Batches == UNION {[1..n -> CsvRows] : n \in 0..MaxBatch}

\* the row of table runners a CSV row is stored as
StoredRow(row) == [name |-> row.name, team |-> "A", age |-> 16]

\* an INSERT that leaves the row of an existing bib as it is
InsertOrIgnore(table, bib, attrs) ==
    [b \in DOMAIN table \cup {bib} |-> IF b \in DOMAIN table THEN table[b] ELSE attrs]

\* INSERT OR REPLACE INTO runners, bib INTEGER PRIMARY KEY: the row of that
\* bib is the new row, whether or not there was one
InsertOrReplace(table, bib, attrs) ==
    [b \in DOMAIN table \cup {bib} |-> IF b = bib THEN attrs ELSE table[b]]

\* console: for row in csv_reader: try: process_runner_row(...); runners_added
\* += 1; except Exception as e: errors.append(...)
RECURSIVE ConsoleRows(_, _, _, _)
ConsoleRows(table, rows, runners_added, errors) ==
    IF rows = << >>
    THEN [table |-> table, runners_added |-> runners_added, errors |-> errors]
    ELSE LET bib == ParseInt(Strip(Head(rows).bib))
         IN  IF bib.ok
             THEN ConsoleRows(InsertOrReplace(table, bib.value, StoredRow(Head(rows))),
                              Tail(rows), runners_added + 1, errors)
             ELSE ConsoleRows(table, Tail(rows), runners_added, errors + 1)

\* console process_csv_file: every row that can be processed is written, the
\* others are counted as errors; then conn.commit()
ImportCsvConsole(batch) ==
    LET done == ConsoleRows(runners, batch, 0, 0)
    IN  /\ frontend = "console"
        /\ AtMenu("console")
        /\ runners' = done.table
        /\ report' = [kind |-> "import", by |-> "console", rows |-> batch,
                      added |-> done.runners_added, errors |-> done.errors]
        /\ NothingRead
        /\ UNCHANGED <<frontend, now, db_filename, race_type, results, uncommitted,
                       sessionVars>>

\* SQLite storing a text in the INTEGER PRIMARY KEY column: the integer the
\* text spells, or "datatype mismatch"
SqliteInteger(text) == ParseInt(Strip(text))

\* GUI: for row in reader: self.conn.execute(INSERT OR REPLACE ...);
\* rows_processed += 1, until a row raises
RECURSIVE GuiRows(_, _, _)
GuiRows(table, rows, rows_processed) ==
    IF rows = << >>
    THEN [raised |-> FALSE, table |-> table, rows_processed |-> rows_processed]
    ELSE LET bib == SqliteInteger(Head(rows).bib)
         IN  IF bib.ok
             THEN GuiRows(InsertOrReplace(table, bib.value, StoredRow(Head(rows))),
                          Tail(rows), rows_processed + 1)
             ELSE [raised |-> TRUE, table |-> table, rows_processed |-> rows_processed]

\* the rows of a table as the connection sees it that are not yet in runners
Pending(table) ==
    [b \in {c \in DOMAIN table : c \notin DOMAIN runners \/ table[c] # runners[c]}
        |-> table[b]]

\* GUI process_csv_file: the rows are written on self.conn one by one and
\* committed after the last; a row that raises ends the handler in its except
\* clause, with neither commit nor rollback
ImportCsvGui(batch) ==
    LET done == GuiRows(RunnersSeenByGui, batch, 0)
    IN  /\ frontend = "gui"
        /\ AtMenu("gui")
        /\ IF done.raised
           THEN /\ runners' = runners
                /\ uncommitted' = Pending(done.table)
                /\ report' = [kind |-> "import", by |-> "gui", rows |-> batch,
                              added |-> 0, errors |-> 1]
           ELSE /\ runners' = done.table
                /\ uncommitted' = NoRows
                /\ report' = [kind |-> "import", by |-> "gui", rows |-> batch,
                              added |-> done.rows_processed, errors |-> 0]
        /\ NothingRead
        /\ UNCHANGED <<frontend, now, db_filename, race_type, results, sessionVars>>

InitImport ==
    /\ frontend \in {"console", "gui"}
    /\ race_type = "cross_country"
    /\ runners \in {NoRows, RunnersOf(race_type)}
    /\ results = << >>
    /\ uncommitted = NoRows
    /\ db_filename = Suffix(race_type)
    /\ now = 0
    /\ race_started = FALSE
    /\ race_stopped = FALSE
    /\ race_start_time = NoTime
    /\ race_date = NoDate
    /\ finish_count = 0
    /\ session = 0
    /\ entered = NoInput
    /\ confirm = NoAnswers
    /\ report = NoReport

NextImport ==
    \/ \E batch \in Batches : ImportCsvConsole(batch)
    \/ \E batch \in Batches : ImportCsvGui(batch)

SpecImport == InitImport /\ [][NextImport]_vars

----------------------------------------------------------------------------
(* Creating a race database and detecting its race type *)

\* the clock advances while a front-end waits for the next request: what it
\* showed last stays as it is
ClockAdvances ==
    /\ now < MaxClock
    /\ now' = now + 1
    /\ UNCHANGED <<frontend, dbVars, sessionVars, inputVars, report>>

\* table race_type missing or without a row
NoRecord == "no record"

\* no database chosen: DB_FILENAME = "" / self.conn is None
NoFile == ""

\* the name of an old-format database file, *-race.db
OldFormat == "race"

RaceTypes == {"cross_country", "road_race"}

\* SELECT type FROM race_type ... result[0] if result else "unknown"; a
\* missing table raises and gives "unknown" as well
StoredType == IF race_type = NoRecord THEN "unknown" ELSE race_type

\* console create_new_database and init_db(new_db=True), GUI create
\* database: the file is named after the type and the type is stored in it
CreateDatabase(type) ==
    /\ db_filename' = Suffix(type)
    /\ race_type' = type
    /\ runners' = NoRows
    /\ results' = << >>
    /\ uncommitted' = NoRows
    /\ report' = NoReport
    /\ UNCHANGED <<frontend, now, sessionVars, inputVars>>

\* the race_type table of the loaded database is dropped
\* (test_corrupted_race_type_detection)
DropRaceTypeTable ==
    /\ db_filename # NoFile
    /\ race_type # NoRecord
    /\ race_type' = NoRecord
    /\ report' = NoReport
    /\ UNCHANGED <<frontend, now, db_filename, runners, results, uncommitted,
                   sessionVars, inputVars>>

\* console load_race_type
LoadRaceTypeConsole ==
    /\ frontend = "console"
    /\ report' = [kind |-> "race_type", by |-> "console",
                  type |-> IF db_filename = NoFile THEN "unknown" ELSE StoredType]
    /\ UNCHANGED <<frontend, now, dbVars, sessionVars, inputVars>>

\* GUI load_database, of a database file chosen in the file dialog
LoadDatabaseGui ==
    /\ frontend = "gui"
    /\ db_filename # NoFile
    /\ report' = [kind |-> "race_type", by |-> "gui", type |-> StoredType]
    /\ UNCHANGED <<frontend, now, dbVars, sessionVars, inputVars>>

\* web get_race_databases, the entry of one database file: an old-format
\* file is asked for its stored type (get_race_type), a new-format file is
\* given the type its name spells
GetRaceDatabasesWeb ==
    /\ db_filename # NoFile
    /\ report' = [kind |-> "race_type", by |-> "web",
                  type |-> IF db_filename = OldFormat THEN StoredType
                           ELSE IF db_filename = "cc" THEN "cross_country"
                           ELSE "road_race"]
    /\ UNCHANGED <<frontend, now, dbVars, sessionVars, inputVars>>

\* the test suite's detect_race_type
DetectRaceType ==
    /\ report' = [kind |-> "race_type", by |-> "helper",
                  type |-> IF db_filename = NoFile THEN "unknown" ELSE StoredType]
    /\ UNCHANGED <<frontend, now, dbVars, sessionVars, inputVars>>

\* no database yet, or an old-format database made by an earlier release
InitDetect ==
    /\ frontend \in {"console", "gui"}
    /\ \/ db_filename = NoFile /\ race_type = NoRecord
       \/ db_filename = OldFormat /\ race_type \in RaceTypes \cup {NoRecord}
    /\ runners = NoRows
    /\ results = << >>
    /\ uncommitted = NoRows
    /\ now = 0
    /\ race_started = FALSE
    /\ race_stopped = FALSE
    /\ race_start_time = NoTime
    /\ race_date = NoDate
    /\ finish_count = 0
    /\ session = 0
    /\ entered = NoInput
    /\ confirm = NoAnswers
    /\ report = NoReport

NextDetect ==
    \/ \E type \in RaceTypes : CreateDatabase(type)
    \/ DropRaceTypeTable
    \/ LoadRaceTypeConsole
    \/ LoadDatabaseGui
    \/ GetRaceDatabasesWeb
    \/ DetectRaceType
    \/ ClockAdvances

SpecDetect == InitDetect /\ [][NextDetect]_vars

----------------------------------------------------------------------------
(* Repeated reports: a full team has finished, some runners in the same  *)
(* tick; time passes between the requests                                *)

InitTwice ==
    /\ frontend = "console"
    /\ race_type \in {"cross_country", "road_race"}
    /\ runners = [b \in 1..MinTeamSize |->
                     [name |-> "runner",
                      team |-> IF race_type = "cross_country" THEN "A" ELSE NULL,
                      age |-> 16]]
    /\ \E timeOf \in [1..MinTeamSize -> 0..MaxClock] :
         results = [i \in 1..MinTeamSize |->
                       [id |-> i, bib |-> i, finish_time |-> timeOf[i],
                        race_date |-> DateOf(0)]]
    /\ uncommitted = NoRows
    /\ db_filename = Suffix(race_type)
    /\ now = 0
    /\ race_started = FALSE
    /\ race_stopped = FALSE
    /\ race_start_time = NoTime
    /\ race_date = NoDate
    /\ finish_count = 0
    /\ session = 0
    /\ entered = NoInput
    /\ confirm = NoAnswers
    /\ report = NoReport

NextTwice ==
    \/ ClockAdvances
    \/ ShowIndividualResultsConsole
    \/ ShowIndividualResultsGui
    \/ ShowIndividualResultsWeb
    \/ ShowTeamResultsConsole
    \/ ShowTeamResultsGui
    \/ ShowTeamResultsWeb
    \/ ShowAgeGroupResultsConsole
    \/ ShowAgeGroupResultsGui
    \/ ShowAgeGroupResultsWeb

SpecTwice == InitTwice /\ [][NextTwice]_vars

----------------------------------------------------------------------------
(* Age grouping: road races whose runners have every kind of age *)

MaxGrouped == 2

\* ages at and around the bounds of the bands
AgeValues == {0, 1, 15, 16, 70, 71, 150, 200, 201}

\* bib i finishes i-th or ties; some bibs have no runners row, some runners
\* rows have no age
InitAge ==
    /\ frontend = "console"
    /\ race_type = "road_race"
    /\ \E n \in 1..MaxGrouped : \E R \in SUBSET (1..n) :
         \E ageOf \in [R -> AgeValues \cup {NoAge}] :
           \E timeOf \in [1..n -> 0..MaxClock] :
             /\ runners = [b \in R |->
                              [name |-> "runner", team |-> NULL, age |-> ageOf[b]]]
             /\ results = [i \in 1..n |->
                              [id |-> i, bib |-> i, finish_time |-> timeOf[i],
                               race_date |-> DateOf(0)]]
    /\ uncommitted = NoRows
    /\ db_filename = Suffix(race_type)
    /\ now = 0
    /\ race_started = FALSE
    /\ race_stopped = FALSE
    /\ race_start_time = NoTime
    /\ race_date = NoDate
    /\ finish_count = 0
    /\ session = 0
    /\ entered = NoInput
    /\ confirm = NoAnswers
    /\ report = NoReport

NextAge ==
    \/ ShowAgeGroupResultsGui
    \/ ShowAgeGroupResultsWeb
    \/ ShowAgeGroupResultsConsole
    \/ GroupWithHelper

SpecAge == InitAge /\ [][NextAge]_vars

----------------------------------------------------------------------------
(* Time formatting and parsing. The code's durations are floats of seconds; *)
(* here a duration is a whole number of ten-thousandths of a second, one    *)
(* decimal finer than the millisecond the formats show. What the binary     *)
(* float adds is one input of the formatters, short: whether the float      *)
(* falls short of the decimal it was written as, which decides a rounding   *)
(* at the half and a truncation at a whole millisecond.                     *)

PerSecond == 10000
PerMilli == 10
PerMinute == 60 * PerSecond
PerHour == 3600 * PerSecond

\* a float with a finite binary expansion: a multiple of 1/16 of a second
ExactFloat(t) == t % (PerSecond \div 16) = 0

DigitChars == <<"0", "1", "2", "3", "4", "5", "6", "7", "8", "9">>

\* str(n), n >= 0
RECURSIVE Decimal(_)
Decimal(n) ==
    IF n < 10 THEN <<DigitChars[n + 1]>>
    ELSE Decimal(n \div 10) \o <<DigitChars[(n % 10) + 1]>>

\* the 0 flag of a format: zeros on the left up to the width
RECURSIVE ZeroPad(_, _)
ZeroPad(s, width) == IF Len(s) >= width THEN s ELSE ZeroPad(<<"0">> \o s, width)

\* f"{n:02d}" and f"{n:03d}"
Format02d(n) == ZeroPad(Decimal(n), 2)
Format03d(n) == ZeroPad(Decimal(n), 3)

\* round(seconds, 3) as the .3f conversion does it, in milliseconds: to the
\* nearest, a half going the way of the float
RoundToMillis(seconds, short) ==
    LET whole == seconds \div PerMilli
        rest == seconds % PerMilli
    IN  IF 2 * rest < PerMilli THEN whole
        ELSE IF 2 * rest > PerMilli THEN whole + 1
        ELSE IF short THEN whole ELSE whole + 1

\* f"{int(seconds):02d}": the seconds without their fraction
FormatWholeSeconds(seconds, short) == Format02d(seconds \div PerSecond)

\* f"{seconds:06.3f}": the seconds left after the minutes were taken out,
\* rounded to three decimals, nothing carried to the minutes
FormatSeconds(seconds, short) ==
    LET millis == RoundToMillis(seconds, short)
    IN  ZeroPad(Decimal(millis \div 1000) \o <<".">> \o Format03d(millis % 1000), 6)

\* format_time of the GUI and of the test helper
FormatTime(total_seconds, short) ==
    LET minutes == total_seconds \div PerMinute
        seconds == total_seconds % PerMinute
    IN  Format02d(minutes) \o <<":">> \o FormatSeconds(seconds, short)

\* format_time_hours of the test helper
FormatTimeHours(total_seconds, short) ==
    LET hours == total_seconds \div PerHour
        remainder == total_seconds % PerHour
        minutes == remainder \div PerMinute
        seconds == remainder % PerMinute
    IN  Format02d(hours) \o <<":">> \o Format02d(minutes) \o <<":">>
            \o FormatSeconds(seconds, short)

\* format_time of the console: every field is cut with int(); the product
\* (seconds % 1) * 1000 of a float that falls short of a whole millisecond
\* is cut to the millisecond before
FormatTimeConsole(seconds, short) ==
    LET minutes == seconds \div PerMinute
        secs == (seconds % PerMinute) \div PerSecond
        fraction == seconds % PerSecond
        milliseconds ==
            IF short /\ fraction % PerMilli = 0 /\ ~ExactFloat(seconds)
            THEN fraction \div PerMilli - 1
            ELSE fraction \div PerMilli
    IN  Format02d(minutes) \o <<":">> \o Format02d(secs) \o <<".">>
            \o Format03d(milliseconds)

\* format_time_display of the web application
FormatTimeDisplay(total_seconds, short) ==
    LET minutes == total_seconds \div PerMinute
        secs == total_seconds % PerMinute
        hours == minutes \div 60
        mins == minutes % 60
    IN  IF hours > 0
        THEN Decimal(hours) \o <<":">> \o Format02d(mins) \o <<":">>
                 \o FormatSeconds(secs, short)
        ELSE Format02d(mins) \o <<":">> \o FormatSeconds(secs, short)

\* str.count(':')
RECURSIVE CountColons(_)
CountColons(s) ==
    IF s = << >> THEN 0
    ELSE (IF Head(s) = ":" THEN 1 ELSE 0) + CountColons(Tail(s))

\* str.split(':')
RECURSIVE SplitColons(_, _)
SplitColons(s, part) ==
    IF s = << >> THEN <<part>>
    ELSE IF Head(s) = ":" THEN <<part>> \o SplitColons(Tail(s), << >>)
    ELSE SplitColons(Tail(s), Append(part, Head(s)))

\* the digits after the point, as ten-thousandths
RECURSIVE FractionValue(_, _)
FractionValue(s, unit) ==
    IF s = << >> \/ unit = 0 THEN 0
    ELSE (unit \div 10) * DigitValue(Head(s)) + FractionValue(Tail(s), unit \div 10)

\* float(text) of an unsigned decimal: digits, digits.digits, digits. or
\* .digits
ParseUnsignedFloat(s) ==
    LET points == {i \in 1..Len(s) : s[i] = "."}
        point == IF points = {} THEN Len(s) + 1 ELSE CHOOSE i \in points : TRUE
        whole == SubSeq(s, 1, point - 1)
        fraction == SubSeq(s, point + 1, Len(s))
        digits == whole \o fraction
    IN  IF Cardinality(points) <= 1 /\ AllDigits(digits)
        THEN [ok |-> TRUE,
              value |-> PerSecond * DigitsValue(whole, 0)
                            + FractionValue(fraction, PerSecond)]
        ELSE ValueError

\* float(text): blanks around the number and a sign before it are accepted
ParseFloat(text) ==
    LET s == Strip(text)
        unsigned == IF s # << >> /\ Head(s) \in {"-", "+"} THEN Tail(s) ELSE s
        parsed == ParseUnsignedFloat(unsigned)
    IN  IF parsed.ok /\ s # << >> /\ Head(s) = "-"
        THEN [ok |-> TRUE, value |-> 0 - parsed.value]
        ELSE parsed

\* a value that is not a string
NotAString == <<"None">>

\* parse_time_input returns None
None == [ok |-> FALSE, value |-> 0]

\* parse_time_input of the test helper
ParseTimeInput(time_string) ==
    IF time_string = << >> \/ time_string = NotAString THEN None
    ELSE LET parts == SplitColons(time_string, << >>)
             hours == ParseInt(Strip(parts[1]))
             minutes == ParseInt(Strip(parts[Len(parts) - 1]))
             seconds == ParseFloat(parts[Len(parts)])
         IN  IF CountColons(time_string) = 1
             THEN IF minutes.ok /\ seconds.ok
                  THEN [ok |-> TRUE, value |-> minutes.value * PerMinute + seconds.value]
                  ELSE None
             ELSE IF CountColons(time_string) = 2
             THEN IF hours.ok /\ minutes.ok /\ seconds.ok
                  THEN [ok |-> TRUE,
                        value |-> hours.value * PerHour + minutes.value * PerMinute
                                      + seconds.value]
                  ELSE None
             ELSE None

\* the durations formatted: 0, 0.0001, 0.0005, 0.001, 59.999, 59.9995,
\* 59.9999, 60.0, 119.999, 123.1234, 123.456, 123.9999, 3599.999,
\* 3599.9999, 3661.5 and 7200.0 seconds
Durations ==
    {0, 1, 5, 10, 599990, 599995, 599999, 600000, 1199990, 1231234, 1234560,
     1239999, 35999990, 35999999, 36615000, 72000000}

\* the strings parsed
TimeStrings ==
    { << >>, NotAString,
      <<"i", "n", "v", "a", "l", "i", "d">>,
      <<"1", ":", "2", ":", "3", ":", "4">>,
      <<"a", "b", ":", "c", "d", ".", "e", "f", "g">>,
      <<"6", "0", ":", "6", "0", ".", "0", "0", "0">>,
      <<"0", "1", ":", "6", "0", ".", "0", "0", "0">>,
      <<"-", "0", "1", ":", "3", "0", ".", "0", "0", "0">>,
      <<"0", "1", ":", "-", "3", "0", ".", "0", "0", "0">>,
      <<"0", "1", ":", "0", "0", ":", "7", "5", ".", "5">>,
      <<"0", "2", ":", "0", "3", ".", "4", "5", "6">>,
      <<"0", "1", ":", "0", "1", ":", "0", "1", ".", "5", "0", "0">>,
      <<"0", "0", ":", "5", "9">>,
      <<"1", ":">> }

\* the elapsed time of the one finish recorded
TotalSeconds == results[1].finish_time

FormatTimeGui ==
    /\ \E short \in BOOLEAN :
         report' = [kind |-> "time", by |-> "gui",
                    text |-> FormatTime(TotalSeconds, short)]
    /\ NothingRead
    /\ UNCHANGED <<frontend, now, dbVars, sessionVars>>

FormatTimeHoursHelper ==
    /\ \E short \in BOOLEAN :
         report' = [kind |-> "time", by |-> "helper",
                    text |-> FormatTimeHours(TotalSeconds, short)]
    /\ NothingRead
    /\ UNCHANGED <<frontend, now, dbVars, sessionVars>>

FormatTimeOfConsole ==
    /\ \E short \in BOOLEAN :
         report' = [kind |-> "time", by |-> "console",
                    text |-> FormatTimeConsole(TotalSeconds, short)]
    /\ NothingRead
    /\ UNCHANGED <<frontend, now, dbVars, sessionVars>>

FormatTimeDisplayWeb ==
    /\ \E short \in BOOLEAN :
         report' = [kind |-> "time", by |-> "web",
                    text |-> FormatTimeDisplay(TotalSeconds, short)]
    /\ NothingRead
    /\ UNCHANGED <<frontend, now, dbVars, sessionVars>>

ParseTime ==
    /\ \E time_string \in TimeStrings :
         /\ entered' = time_string
         /\ report' = [kind |-> "parsed", parsed |-> ParseTimeInput(time_string)]
    /\ confirm' = NoAnswers
    /\ UNCHANGED <<frontend, now, dbVars, sessionVars>>

\* test_time_format_round_trip: formatted = format_time(t) or
\* format_time_hours(t); parsed = parse_time_input(formatted)
RoundTrip ==
    /\ \E short \in BOOLEAN : \E hours \in BOOLEAN :
         LET formatted == IF hours THEN FormatTimeHours(TotalSeconds, short)
                          ELSE FormatTime(TotalSeconds, short)
         IN  report' = [kind |-> "round_trip", formatted |-> formatted,
                        parsed |-> ParseTimeInput(formatted)]
    /\ NothingRead
    /\ UNCHANGED <<frontend, now, dbVars, sessionVars>>

InitTime ==
    /\ frontend \in {"console", "gui"}
    /\ race_type = "road_race"
    /\ runners = NoRows
    /\ \E t \in Durations :
         results = <<[id |-> 1, bib |-> 1, finish_time |-> t, race_date |-> DateOf(0)]>>
    /\ uncommitted = NoRows
    /\ db_filename = Suffix(race_type)
    /\ now = 0
    /\ race_started = FALSE
    /\ race_stopped = FALSE
    /\ race_start_time = NoTime
    /\ race_date = NoDate
    /\ finish_count = 0
    /\ session = 0
    /\ entered = NoInput
    /\ confirm = NoAnswers
    /\ report = NoReport

NextTime ==
    \/ FormatTimeGui
    \/ FormatTimeHoursHelper
    \/ FormatTimeOfConsole
    \/ FormatTimeDisplayWeb
    \/ ParseTime
    \/ RoundTrip

SpecTime == InitTime /\ [][NextTime]_vars

----------------------------------------------------------------------------
(* Tie detection: the scoring helper's detector, applied to lists of team   *)
(* scores written as the tests write them                                   *)

MaxTeams == 4

\* the (score, tiebreak1, tiebreak2) of the tests' teams, and of a team
\* without displacers
ScoreKeys == {<<25, 12, 15>>, <<25, 13, 16>>, <<30, 8, 10>>, <<25, Inf, Inf>>}

\* ("Team A", 25, [], [], 12, 15)
TeamData(i, key) ==
    [team |-> "Team " \o ToString(i), score |-> key[1], top5 |-> << >>,
     displacers |-> << >>, tiebreak1 |-> key[2], tiebreak2 |-> key[3]]

\* score_key = (score, tiebreak1, tiebreak2)
ScoreKey(team_data) == <<team_data.score, team_data.tiebreak1, team_data.tiebreak2>>

\* score_key in seen_scores
InSeen(seen_scores, score_key) ==
    \E k \in 1..Len(seen_scores) : seen_scores[k].key = score_key

\* seen_scores[score_key]
SeenTeams(seen_scores, score_key) ==
    LET k == CHOOSE k \in 1..Len(seen_scores) : seen_scores[k].key = score_key
    IN  seen_scores[k].teams

\* tied_teams.append(team), the list being the one seen_scores holds
AppendToSeen(seen_scores, score_key, team) ==
    [k \in 1..Len(seen_scores) |->
        IF seen_scores[k].key = score_key
        THEN [seen_scores[k] EXCEPT !.teams = Append(@, team)]
        ELSE seen_scores[k]]

\* an entry holding a copy of the list as it was when the tie was found
TeamsWhenFound(found, listed) == found

\* 'teams': tied_teams, the list of seen_scores itself: teams appended to it
\* after the entry was made are in the entry
TeamsOfEntry(found, listed) == listed

\* for team_data in team_scores: ...
RECURSIVE ScanScores(_, _, _)
ScanScores(team_scores, seen_scores, ties) ==
    IF team_scores = << >> THEN [seen_scores |-> seen_scores, ties |-> ties]
    ELSE LET team_data == Head(team_scores)
             score_key == ScoreKey(team_data)
         IN  IF InSeen(seen_scores, score_key)
             THEN LET appended == AppendToSeen(seen_scores, score_key, team_data.team)
                      tied_teams == SeenTeams(appended, score_key)
                  IN  ScanScores(Tail(team_scores), appended,
                                 IF Len(tied_teams) = 2
                                 THEN Append(ties, [key |-> score_key,
                                                    teams |-> tied_teams])
                                 ELSE ties)
             ELSE ScanScores(Tail(team_scores),
                             Append(seen_scores,
                                    [key |-> score_key, teams |-> <<team_data.team>>]),
                             ties)

\* TestableScoringSystem.detect_scoring_ties: the ties returned
DetectScoringTies(team_scores) ==
    LET scanned == ScanScores(team_scores, << >>, << >>)
    IN  [i \in 1..Len(scanned.ties) |->
            [score |-> scanned.ties[i].key[1],
             tiebreak1 |-> scanned.ties[i].key[2],
             tiebreak2 |-> scanned.ties[i].key[3],
             teams |-> TeamsOfEntry(scanned.ties[i].teams,
                                    SeenTeams(scanned.seen_scores, scanned.ties[i].key))]]

\* ties = app.detect_scoring_ties(team_scores): the argument is read, never
\* assigned to; the detector may be asked again of the same team scores
DetectTies ==
    /\ report.kind \in {"team", "ties"}
    /\ report' = [kind |-> "ties", by |-> "helper", teams |-> report.teams,
                  ties |-> DetectScoringTies(report.teams)]
    /\ UNCHANGED <<frontend, now, dbVars, sessionVars, inputVars>>

InitTies ==
    /\ frontend = "console"
    /\ race_type = "cross_country"
    /\ runners = NoRows
    /\ results = << >>
    /\ uncommitted = NoRows
    /\ db_filename = Suffix(race_type)
    /\ now = 0
    /\ race_started = FALSE
    /\ race_stopped = FALSE
    /\ race_start_time = NoTime
    /\ race_date = NoDate
    /\ finish_count = 0
    /\ session = 0
    /\ entered = NoInput
    /\ confirm = NoAnswers
    /\ \E n \in 0..MaxTeams : \E keyOf \in [1..n -> ScoreKeys] :
         report = [kind |-> "team", by |-> "helper",
                   teams |-> [i \in 1..n |-> TeamData(i, keyOf[i])]]

NextTies ==
    \/ DetectTies
    \/ ClockAdvances

SpecTies == InitTies /\ [][NextTies]_vars

----------------------------------------------------------------------------
(* Reports and the timer among bib entries: a GUI timing session, the       *)
(* timer of its timing window, and the listings asked of the GUI, the       *)
(* console and the web application between and during the entries           *)

\* a timer that closes the session when the clock has run out
UpdateTimerStopping ==
    /\ frontend = "gui"
    /\ Running
    /\ report' = [kind |-> "timer", by |-> "gui", elapsed |-> now - race_start_time]
    /\ race_stopped' = (now = MaxClock)
    /\ race_started' = (now < MaxClock)
    /\ UNCHANGED <<frontend, now, dbVars, race_start_time, race_date, finish_count,
                   session, inputVars>>

\* GUI update_timer, called every second while the timing window is open:
\* the elapsed time is computed from the clock and written to timer_label
UpdateTimer ==
    /\ frontend = "gui"
    /\ Running
    /\ report' = [kind |-> "timer", by |-> "gui", elapsed |-> now - race_start_time]
    /\ UNCHANGED <<frontend, now, dbVars, sessionVars, inputVars>>

InitReadOnly ==
    /\ Init
    /\ frontend = "gui"

NextReadOnly ==
    \/ ClockAdvances
    \/ StartRaceGui
    \/ \E text \in Inputs : GuiBibEntry(text)
    \/ GuiWindowClose
    \/ UpdateTimer
    \/ ShowIndividualResultsGui
    \/ ShowIndividualResultsWeb
    \/ ShowIndividualResultsConsole
    \/ ShowTeamResultsGui
    \/ ShowTeamResultsWeb
    \/ ShowTeamResultsConsole

SpecReadOnly == InitReadOnly /\ [][NextReadOnly]_vars

----------------------------------------------------------------------------
(* What the specification says of a ledger, stated without the code's       *)
(* lists and sorts                                                          *)

Events == 1..Len(results)

\* the team a finish event is attributed to
TeamOfEvent(i) ==
    IF Registered(results[i].bib) THEN runners[results[i].bib].team ELSE "UNKNOWN"

\* overall place: 1-based rank by elapsed time over every recorded finish,
\* events of equal time in insertion order
OverallPlace(i) ==
    1 + Cardinality({j \in Events :
                        \/ results[j].finish_time < results[i].finish_time
                        \/ /\ results[j].finish_time = results[i].finish_time
                           /\ results[j].id < results[i].id})

FinishersOf(t) == {i \in Events : TeamOfEvent(i) = t}
PlacesOf(t) == {OverallPlace(i) : i \in FinishersOf(t)}

MinOf(S) == CHOOSE x \in S : \A y \in S : x <= y

RECURSIVE SumSmallest(_, _)
SumSmallest(S, k) ==
    IF k = 0 \/ S = {} THEN 0
    ELSE MinOf(S) + SumSmallest(S \ {MinOf(S)}, k - 1)

TeamReport == report.kind = "team"
ReportedTeams == {report.teams[i].team : i \in 1..Len(report.teams)}

\* C1: a team is in the team results if and only if it has at least 5
\* finishers (finish events attributed to it): every listed team has 5 or
\* more, every registered team with 5 or more is listed, and no team is listed
\* twice.
C1_MinimumTeamSize ==
    TeamReport =>
        /\ \A t \in ReportedTeams : Cardinality(FinishersOf(t)) >= 5
        /\ \A t \in TeamNames : Cardinality(FinishersOf(t)) >= 5 => t \in ReportedTeams
        /\ \A i, j \in 1..Len(report.teams) :
               report.teams[i].team = report.teams[j].team => i = j

\* a team whose 4 finishers took places 1 to 4 is absent from a report that
\* lists the other team
C1_Witness ==
    /\ TeamReport
    /\ \E t \in TeamNames :
         /\ PlacesOf(t) = 1..4
         /\ t \notin ReportedTeams
         /\ ReportedTeams # {}

\* C2: the score of every listed team is the sum of the overall places of
\* its 5 finishers with the lowest overall places.
C2_ScoreIsSumOfFiveLowestPlaces ==
    TeamReport =>
        \A i \in 1..Len(report.teams) :
            report.teams[i].score = SumSmallest(PlacesOf(report.teams[i].team), 5)

\* the place of a listed team's 6th and 7th finisher as the report shows
\* them, +infinity when the team has none
DisplacerPlace(e, k) ==
    IF Len(e.displacers) >= k THEN e.displacers[k].place ELSE Inf

RankKey(e) == <<e.score, DisplacerPlace(e, 1), DisplacerPlace(e, 2)>>

\* C3: team results are in ascending order of (score, place of the 6th
\* finisher, place of the 7th finisher), a missing one counting as +infinity.
C3_RankedByScoreThenDisplacers ==
    TeamReport =>
        \A i, j \in 1..Len(report.teams) :
            i < j => ~LexLess(RankKey(report.teams[j]), RankKey(report.teams[i]))

----------------------------------------------------------------------------
(* What the specification says of a timing step, read off the text the      *)
(* step took at the bib prompt (entered') and the answers it was given      *)

\* the step read a token at the bib prompt
EntryStep == entered' # NoInput

\* the token "exit" in any letter case, blanks around it aside
ExitToken(text) == Lower(Strip(text)) = Exit

\* a bib number: decimal digits, blanks around them aside
BibToken(text) == AllDigits(Strip(text))
BibOf(text) == DigitsValue(Strip(text), 0)

\* empty or non-numeric, and not the exit token
Rejectable(text) == ~ExitToken(text) /\ ~BibToken(text)

\* the operator answered yes to a [y/N] prompt
Affirmative(answer) == answer # NotAsked /\ Lower(Strip(answer)) = Yes
Declined(answer) == answer # NotAsked /\ Lower(Strip(answer)) # Yes

Elapsed == now - race_start_time

NoTwoEventsOfOneBib ==
    \A i, j \in Events : results[i].bib = results[j].bib => i = j

\* C4: a bib entry never leaves two finish events of one bib in a ledger
\* that had none, and every event the entry wrote or rewrote carries the
\* elapsed time of that entry (last write wins).
C4_OneEventPerBibLastWriteWins ==
    [][(EntryStep /\ BibToken(entered') /\ NoTwoEventsOfOneBib) =>
          /\ NoTwoEventsOfOneBib'
          /\ \A i \in 1..Len(results') :
                 (i > Len(results) \/ results'[i] # results[i]) =>
                     /\ results'[i].bib = BibOf(entered')
                     /\ results'[i].finish_time = Elapsed]_vars

\* C5: in a Running session, an input that is empty or non-numeric and not
\* the exit token writes nothing to the ledger, leaves the finisher counter
\* as it is and leaves the session Running.
C5_EmptyOrNonNumericInputRejected ==
    [][(Running /\ EntryStep /\ Rejectable(entered')) =>
          /\ UNCHANGED <<results, finish_count>>
          /\ Running']_vars

\* C6: in a Running session, the token exit in any letter case moves the
\* session to Stopped and leaves the ledger and the finisher counter as they
\* were before the input.
C6_ExitStopsAndRecordsNothing ==
    [][(Running /\ EntryStep /\ ExitToken(entered')) =>
          /\ Stopped'
          /\ ~Running'
          /\ UNCHANGED <<results, finish_count>>]_vars

\* a session that recorded a finish was stopped by " ExIT"
C6_Witness ==
    /\ entered = <<" ", "E", "x", "I", "T">>
    /\ Stopped
    /\ finish_count = 1
    /\ Len(results) = 1

SessionState ==
    IF Running THEN "Running" ELSE IF Stopped THEN "Stopped" ELSE "NotStarted"

\* a finish event is added, or the elapsed time of one is rewritten
LedgerWritten ==
    \/ Len(results') # Len(results)
    \/ \E i \in Events : results'[i].finish_time # results[i].finish_time

\* C7: the state of a session changes only from Running to Stopped, a
\* session becomes Running only by a start that opens a new session (from
\* NotStarted, or after the previous session Stopped) with the start instant
\* of that moment, no session is opened while one is Running, a finish event
\* is written only while the session is Running, and the start instant of a
\* Running session is never replaced.
C7_SessionStateEnforced ==
    [][/\ (session' = session /\ SessionState' # SessionState) =>
              (SessionState = "Running" /\ SessionState' = "Stopped")
       /\ session' # session =>
              /\ session' = session + 1
              /\ SessionState # "Running"
              /\ SessionState' = "Running"
              /\ race_start_time' = now
       /\ LedgerWritten => (Running /\ Running')
       /\ Running => race_start_time' = race_start_time]_vars

\* the second session of a run is Running and has recorded a finish, after
\* the first session recorded one and Stopped
C7_Witness ==
    /\ session = 2
    /\ Running
    /\ finish_count = 1
    /\ Len(results) = 2

\* the step recorded a finish: a bib number was entered and its finish event
\* was added to the ledger
RecordedFinish ==
    /\ EntryStep
    /\ BibToken(entered')
    /\ Len(results') = Len(results) + 1

\* C8: every recorded finish increments the finisher counter by exactly one,
\* and the counter of a session changes in no other step (a new session
\* starts its own counter at zero).
C8_CounterCountsRecordedFinishes ==
    [][/\ RecordedFinish => finish_count' = finish_count + 1
       /\ (session' = session /\ finish_count' # finish_count) => RecordedFinish
       /\ session' # session => finish_count' = 0]_vars

\* C9: no step removes a finish event or changes which event a row is, the
\* elapsed time of an existing event changes only in a step that re-enters
\* the bib of the event with the overwrite confirmed, and a step whose
\* overwrite prompt is declined leaves the ledger and the finisher counter
\* unchanged.
C9_NoDeletionOverwriteOnlyOnConfirm ==
    [][/\ Len(results') >= Len(results)
       /\ \A i \in Events : results'[i].id = results[i].id
       /\ \A i \in Events :
              results'[i].finish_time # results[i].finish_time =>
                  /\ EntryStep
                  /\ BibToken(entered')
                  /\ BibOf(entered') = results[i].bib
                  /\ Affirmative(confirm'.update)
       /\ (EntryStep /\ Declined(confirm'.update)) =>
              UNCHANGED <<results, finish_count>>]_vars

\* bib 1, recorded at the start instant, was re-entered one tick later and
\* the overwrite confirmed: its event carries the later time, the counter
\* still counts one finish
C9_Witness ==
    /\ entered = <<"1">>
    /\ confirm.update = <<" ", "Y">>
    /\ Len(results) = 1
    /\ results[1].finish_time = 1
    /\ finish_count = 1

\* the last step answered a request for the report q
Asked(q) ==
    /\ report # NoReport
    /\ IF report.kind \in {"empty", "error"} THEN report.query = q ELSE report.kind = q

UnknownEvents == {i \in Events : ~Registered(results[i].bib)}

\* the rows of the individual results the last step listed
ListedRows == IF report.kind = "individual" THEN report.rows ELSE << >>

Faster(i) == Cardinality({j \in Events : results[j].finish_time < results[i].finish_time})
NotSlower(i) == Cardinality({j \in Events : results[j].finish_time <= results[i].finish_time})

\* C10: when individual results are asked for, every finish event whose bib
\* has no runners row is listed, with the name UNKNOWN and with a place that
\* ranks its elapsed time among all the events of the ledger.
C10_UnknownBibsListedAndPlaced ==
    Asked("individual") =>
        \A i \in UnknownEvents :
            \E k \in 1..Len(ListedRows) :
                /\ ListedRows[k].bib = results[i].bib
                /\ ListedRows[k].finish_time = results[i].finish_time
                /\ ListedRows[k].name = "UNKNOWN"
                /\ ListedRows[k].place > Faster(i)
                /\ ListedRows[k].place <= NotSlower(i)

----------------------------------------------------------------------------
(* What the specification says of a report, read off the report the last    *)
(* step produced                                                            *)

\* how many rows of a list, and how many events of the ledger, are the
\* finish of bib b at elapsed time t
RowCount(rows, b, t) ==
    Cardinality({k \in 1..Len(rows) : rows[k].bib = b /\ rows[k].finish_time = t})
EventCount(b, t) ==
    Cardinality({i \in Events : results[i].bib = b /\ results[i].finish_time = t})

\* C11: individual results list every event of the ledger exactly once, the
\* k-th row has place k (so the places are 1..N for N events), and the rows
\* are in ascending order of elapsed time whatever the order of entry.
C11_IndividualResultsRankEveryEvent ==
    Asked("individual") =>
        /\ Len(ListedRows) = Len(results)
        /\ \A i \in Events :
               RowCount(ListedRows, results[i].bib, results[i].finish_time)
                   = EventCount(results[i].bib, results[i].finish_time)
        /\ \A k \in 1..Len(ListedRows) : ListedRows[k].place = k
        /\ \A k, l \in 1..Len(ListedRows) :
               k < l => ListedRows[k].finish_time <= ListedRows[l].finish_time

\* the finishers a listed team is shown with: its scorers and its displacers
ShownRunners(e) == e.top5 \o e.displacers

\* C12: the place every finisher of a listed team is scored or shown with is
\* the finisher's overall place, the 1-based rank of its elapsed time over
\* every event of the ledger, registered or not.
C12_ScoringPlaceIsOverallPlace ==
    TeamReport =>
        \A t \in 1..Len(report.teams) :
            \A k \in 1..Len(ShownRunners(report.teams[t])) :
                \E i \in Events :
                    /\ results[i].bib = ShownRunners(report.teams[t])[k].bib
                    /\ ShownRunners(report.teams[t])[k].place = OverallPlace(i)

WrongRaceTypeError == report.kind = "error" /\ report.why = "wrong_race_type"

AgeReport == report # NoReport /\ report.kind = "age"

\* the registry's age of the runner of an event, NoAge when there is none
AgeOfEvent(i) ==
    IF Registered(results[i].bib) THEN runners[results[i].bib].age ELSE NoAge

\* the band of an age: the last band is open-ended
BandOf(age) ==
    CHOOSE k \in 1..Len(AgeGroups) :
        /\ AgeGroups[k][1] <= age
        /\ k = Len(AgeGroups) \/ age < AgeGroups[k + 1][1]

\* the names a report gives to a band
BandNames(k) == {RangeName(AgeGroups[k]), HelperGroupName(AgeGroups[k])}

\* where a bib stands in the age-group report: <<group, position>>
Placements(b) ==
    UNION {{<<g, k>> : k \in {j \in 1..Len(report.groups[g].runners) :
                                  report.groups[g].runners[j].bib = b}} :
           g \in 1..Len(report.groups)}

\* the reports that use the 13 bands
ThirteenBands == AgeReport /\ report.by \in {"gui", "web", "helper"}

\* C14: in an age-group report over the 13 bands every finisher whose age is
\* an integer of at least 1 stands in exactly one band, the band whose bounds
\* contain the age, the last band (71 and over) having no upper bound.
C14_EveryAgeInExactlyOneBand ==
    ThirteenBands =>
        \A i \in Events : AgeOfEvent(i) >= 1 =>
            /\ Cardinality(Placements(results[i].bib)) = 1
            /\ \A p \in Placements(results[i].bib) :
                 report.groups[p[1]].group \in BandNames(BandOf(AgeOfEvent(i)))

\* the finisher of an event stands once in the report, in band k
InBand(i, k) ==
    /\ Cardinality(Placements(results[i].bib)) = 1
    /\ \A p \in Placements(results[i].bib) :
         report.groups[p[1]].group \in BandNames(k)

\* C15: in an age-group report over the 13 bands a finisher of age 0 stands
\* in the first band, 1-15, as a finisher of age 1 does, and a finisher of
\* age 150 stands in the last band, 71+.
C15_ExtremeAges ==
    ThirteenBands =>
        \A i \in Events :
            /\ AgeOfEvent(i) \in {0, 1} => InBand(i, 1)
            /\ AgeOfEvent(i) = 150 => InBand(i, Len(AgeGroups))

\* events whose runner has no age: no runners row, or a row without age
AgelessEvents == {i \in Events : AgeOfEvent(i) = NoAge}

\* events whose age lies within the bounds of some band
BandedEvents == {i \in Events : AgeOfEvent(i) >= 1 /\ AgeOfEvent(i) <= 200}

\* C16: when the age-group report of a road race is asked for, a finisher
\* without an age (no age in the registry, or no registry entry for the bib)
\* stands in no band, and the report is still produced: every other finisher
\* whose age lies in a band stands in it once.
C16_AgelessFinisherLeftOutReportProduced ==
    (Asked("age") /\ race_type = "road_race" /\ report.by # "helper") =>
        /\ report.kind # "error"
        /\ report.kind = "empty" => BandedEvents = {}
        /\ report.kind = "age" =>
             /\ \A i \in AgelessEvents : Placements(results[i].bib) = {}
             /\ \A i \in BandedEvents : Cardinality(Placements(results[i].bib)) = 1

\* the event a row of the age-group report stands for
EventOfBib(b) == CHOOSE i \in Events : results[i].bib = b

\* the rows of the report carry a place within the band
WithBandPlaces == AgeReport /\ report.by \in {"gui", "web", "console"}

\* the rows of the report carry the overall place as well
WithOverallPlaces == AgeReport /\ report.by \in {"gui", "web"}

\* C17: in an age-group report the members of a band with k members have the
\* within-band places 1..k in ascending order of elapsed time; where the
\* report keeps the overall place it is the rank over the whole field, so it
\* rises with the within-band place.
C17_BandPlacesCountFromOneOverallPlaceKept ==
    /\ WithBandPlaces =>
         \A g \in 1..Len(report.groups) :
           LET rs == report.groups[g].runners
           IN  /\ \A k \in 1..Len(rs) : rs[k].group_place = k
               /\ \A k, l \in 1..Len(rs) :
                    k < l => rs[k].finish_time <= rs[l].finish_time
    /\ WithOverallPlaces =>
         \A g \in 1..Len(report.groups) :
           LET rs == report.groups[g].runners
           IN  /\ \A k \in 1..Len(rs) :
                    rs[k].place = OverallPlace(EventOfBib(rs[k].bib))
               /\ \A k, l \in 1..Len(rs) : k < l => rs[k].place < rs[l].place

\* a finisher who is second overall and first of a band
C17_Witness ==
    /\ WithOverallPlaces
    /\ \E g \in 1..Len(report.groups) :
         /\ report.groups[g].runners[1].place = 2
         /\ report.groups[g].runners[1].group_place = 1

\* what was asked for by the request a report answers
RequestOf(r) == IF r.kind \in {"empty", "error"} THEN r.query ELSE r.kind

\* a report is asked for again from the front-end that gave the last one
SameRequestAgain ==
    /\ report # NoReport
    /\ report' # NoReport
    /\ report'.by = report.by
    /\ RequestOf(report') = RequestOf(report)

\* two finish events have the same elapsed time
TiedTimes ==
    \E i, j \in Events : i # j /\ results[i].finish_time = results[j].finish_time

WrittenRows ==
    {i \in 1..Len(results') :
        \/ i > Len(results)
        \/ results'[i].finish_time # results[i].finish_time
        \/ results'[i].race_date # results[i].race_date}

\* the calendar day of a stored race_date and of an instant
CalendarDay(date) == date[1]
DayOf(t) == t \div TicksPerDay

\* C19: every finish event a bib entry of a Running session writes carries
\* the calendar date of the instant the session started, whenever the entry
\* is made: the date is that of the start, not that of the finish.
C19_RaceDateIsDateOfSessionStart ==
    [][(Running /\ EntryStep) =>
          \A i \in WrittenRows :
              CalendarDay(results'[i].race_date) = DayOf(race_start_time)]_vars

\* C20: a numeric bib without a registry entry, entered during a Running
\* session, is never rejected: the entry appends a finish event of that bib
\* to the ledger.
C20_UnregisteredBibRecorded ==
    [][(Running /\ EntryStep /\ BibToken(entered') /\ ~Registered(BibOf(entered'))
            /\ ~AlreadyFinished(BibOf(entered')))
          => /\ Len(results') = Len(results) + 1
             /\ results'[Len(results')].bib = BibOf(entered')]_vars

\* the step imported a CSV batch
ImportStep == report' # NoReport /\ report'.kind = "import"

\* a row passes validation when its bib cell is a number
ValidRow(row) == BibToken(row.bib)
AllValid(batch) == \A k \in 1..Len(batch) : ValidRow(batch[k])

\* the last row of a batch that names a bib
LastRowOf(batch, b) ==
    batch[CHOOSE k \in 1..Len(batch) :
            /\ BibOf(batch[k].bib) = b
            /\ \A l \in 1..Len(batch) : BibOf(batch[l].bib) = b => l <= k]

BibsOf(batch) == {BibOf(batch[k].bib) : k \in 1..Len(batch)}

\* the registry as the importing front-end reads it
Registry == RunnersSeenByGui

\* C21: the registry maps a bib to one runner. Importing a batch of valid
\* rows leaves, for every bib the batch names, the attributes of the last row
\* naming it, whether or not the bib was registered before, and leaves every
\* other runner as it was.
C21_ImportUpserts ==
    [][(ImportStep /\ AllValid(report'.rows)) =>
          /\ DOMAIN Registry' = DOMAIN Registry \cup BibsOf(report'.rows)
          /\ \A b \in BibsOf(report'.rows) :
               Registry'[b].name = LastRowOf(report'.rows, b).name
          /\ \A b \in DOMAIN Registry \ BibsOf(report'.rows) :
               Registry'[b] = Registry[b]]_vars

\* bib 1 imported as "runner" and again, later in the batch, as "other"
C21_Witness ==
    /\ report # NoReport
    /\ report.kind = "import"
    /\ Len(report.rows) = 2
    /\ report.rows[1] = [bib |-> <<"1">>, name |-> "runner"]
    /\ report.rows[2] = [bib |-> <<"1">>, name |-> "other"]
    /\ runners[1].name = "other"

\* C22: an import batch is all-or-nothing. When a row of the batch fails
\* validation the import applies none of its rows: the runners table is as
\* before, and nothing of the batch is left pending on the connection for a
\* later commit to apply.
C22_ImportAllOrNothing ==
    [][(ImportStep /\ ~AllValid(report'.rows)) =>
          /\ runners' = runners
          /\ uncommitted' = uncommitted]_vars

\* the last step detected the race type of the database
Detected == report # NoReport /\ report.kind = "race_type"

\* C23: the race type a front-end detects is the discriminator stored in
\* the race database: the type the database was created with while the
\* record is there, and "unknown" when no database is connected or the
\* database holds no race_type record.
C23_DetectedTypeIsStoredType ==
    Detected =>
        report.type = IF db_filename = NoFile \/ race_type = NoRecord
                      THEN "unknown" ELSE race_type


\* the duration to the nearest millisecond, the half upwards, written
\* MM:SS.mmm with the seconds below 60
NearestMillisecond(t) ==
    LET millis == (2 * t + PerMilli) \div (2 * PerMilli)
    IN  Format02d(millis \div 60000) \o <<":">>
            \o Format02d((millis % 60000) \div 1000) \o <<".">>
            \o Format03d(millis % 1000)

Formatted(by) == report.kind = "time" /\ report.by \in by

\* C24: format(seconds) of the GUI and of the console is the duration
\* rounded to the nearest millisecond, a round-up that reaches a full second
\* or minute carried into the next field: the seconds field is below 60, and
\* 59.9995 and 59.9999 read "01:00.000", 123.9999 reads "02:04.000".
C24_FormatRoundsAndCarries ==
    Formatted({"gui", "console"}) => report.text = NearestMillisecond(TotalSeconds)

Parsed == report.kind = "parsed"

Components(text) == SplitColons(text, << >>)

Unsigned(part) == IF part # << >> /\ Head(part) \in {"-", "+"} THEN Tail(part) ELSE part

\* a number: digits, with at most one decimal point, after an optional sign
Numeric(part) ==
    LET digits == SelectSeq(Unsigned(part), LAMBDA c : c # ".")
    IN  /\ AllDigits(digits)
        /\ Len(Unsigned(part)) - Len(digits) <= 1

NegativeComponent(part) == part # << >> /\ Head(part) = "-"

SecondsOf(text) == Components(text)[Len(Components(text))]

InvalidTimeString(text) ==
    \/ text = << >>
    \/ text = NotAString
    \/ CountColons(text) \notin {1, 2}
    \/ \E k \in 1..Len(Components(text)) :
          \/ ~Numeric(Components(text)[k])
          \/ NegativeComponent(Components(text)[k])
    \/ /\ Numeric(SecondsOf(text))
       /\ ParseFloat(SecondsOf(text)).value >= 60 * PerSecond

\* C25: parse returns None for every invalid time string: an empty or
\* non-string input, a colon count other than one or two, a non-numeric
\* component, a seconds component of 60 or more, a negative component.
C25_ParseRejectsInvalid ==
    (Parsed /\ InvalidTimeString(entered)) => ~report.parsed.ok

WholeMilliseconds(t) == t % PerMilli = 0

Distance(a, b) == IF a < b THEN b - a ELSE a - b

\* C26: for a duration of a whole number of milliseconds, parse(format(t))
\* and parse(formatHours(t)) are times, within 0.001 seconds of t.
C26_RoundTrip ==
    (report.kind = "round_trip" /\ WholeMilliseconds(TotalSeconds)) =>
        /\ report.parsed.ok
        /\ Distance(report.parsed.value, TotalSeconds) <= PerMilli

\* 3599.999 seconds went through the hours format and came back
C26_Witness ==
    /\ report.kind = "round_trip"
    /\ TotalSeconds = 35999990
    /\ CountColons(report.formatted) = 2
    /\ report.parsed = [ok |-> TRUE, value |-> 35999990]


TiesStep == report'.kind = "ties"

\* the teams of a list of team scores that hold a key
Holders(team_scores, key) ==
    {team_scores[i].team : i \in {j \in 1..Len(team_scores) : ScoreKey(team_scores[j]) = key}}

SharedKeys(team_scores) ==
    {key \in {ScoreKey(team_scores[i]) : i \in 1..Len(team_scores)} :
        Cardinality(Holders(team_scores, key)) >= 2}

EntriesOf(ties, key) ==
    {i \in 1..Len(ties) : <<ties[i].score, ties[i].tiebreak1, ties[i].tiebreak2>> = key}

\* C27: the tie detector reports exactly one entry for each (score,
\* tiebreak1, tiebreak2) key that two or more teams share, the entry lists
\* every team with that key, once each, no entry is reported for a key of a
\* single team, and the team scores scanned are left as they were.
C27_TieDetector ==
    [][TiesStep =>
          /\ \A key \in SharedKeys(report.teams) :
                /\ Cardinality(EntriesOf(report'.ties, key)) = 1
                /\ \A i \in EntriesOf(report'.ties, key) :
                      /\ {report'.ties[i].teams[k] : k \in 1..Len(report'.ties[i].teams)}
                             = Holders(report.teams, key)
                      /\ Len(report'.ties[i].teams)
                             = Cardinality(Holders(report.teams, key))
          /\ \A i \in 1..Len(report'.ties) :
                <<report'.ties[i].score, report'.ties[i].tiebreak1,
                  report'.ties[i].tiebreak2>> \in SharedKeys(report.teams)
          /\ report'.teams = report.teams]_vars

\* three teams share one key, a fourth team has a key of its own, and one
\* entry lists the three
C27_Witness ==
    /\ report.kind = "ties"
    /\ Len(report.teams) = 4
    /\ Len(report.ties) = 1
    /\ Len(report.ties[1].teams) = 3


\* the key the team results are sorted by, read off a row of the report
TieKey(row) == <<row.score, row.tiebreak1, row.tiebreak2>>

\* the overall place of the first finisher of a team
FirstFinish(team) == MinOf(PlacesOf(team))

TeamReportBy(by) == TeamReport /\ report.by \in by

\* C28: teams of identical score and identical tiebreak values appear in the
\* team results in the order in which their first finishers occur in the
\* overall finish order; nothing else decides between them.
C28_TiedTeamsInFirstFinisherOrder ==
    TeamReportBy({"gui", "web", "helper"}) =>
        \A i, j \in 1..Len(report.teams) :
            (i < j /\ TieKey(report.teams[i]) = TieKey(report.teams[j])) =>
                FirstFinish(report.teams[i].team) < FirstFinish(report.teams[j].team)

\* the GUI lists team B before team A, the two tied in score and tiebreaks
C28_Witness ==
    /\ TeamReportBy({"gui"})
    /\ Len(report.teams) = 2
    /\ TieKey(report.teams[1]) = TieKey(report.teams[2])
    /\ report.teams[1].team = "B"
    /\ FirstFinish("B") < FirstFinish("A")


\* a step at whose end a listing or the timer display is shown: the step of
\* a report or of the timer, or time passing while it is shown
Displayed == report'.kind \in {"timer", "individual", "team", "empty", "error"}

\* C29: report generation and the periodic clock tick are read-only: among
\* bib entries, in any order, neither changes the ledger, the registry, the
\* finisher counter or the session state.
C29_ReportsAndTimerReadOnly ==
    [][Displayed => UNCHANGED <<results, runners, uncommitted, race_type, db_filename,
                                finish_count, race_started, race_stopped,
                                race_start_time, race_date, session>>]_vars

\* the timer shows a second elapsed with one finish in the ledger and the
\* session Running
C29_Witness ==
    /\ report.kind = "timer"
    /\ report.elapsed = 1
    /\ Len(results) = 1
    /\ finish_count = 1
    /\ Running

\* the web application scores the teams while the GUI's session is Running
C29_WitnessReport ==
    /\ report.kind = "team"
    /\ report.by = "web"
    /\ Len(results) = 1
    /\ Running


EditStep ==
    \E i \in 1..Len(results) : \E value \in EditValues : EditRace(results[i].id, value)

\* the ids of the finish events in the order of their elapsed times
RECURSIVE IdsOf(_)
IdsOf(rows) == IF rows = << >> THEN << >> ELSE <<Head(rows).id>> \o IdsOf(Tail(rows))

FinishOrder(ledger) == IdsOf(OrderByFinishTime(ledger))

\* C30: an admin result edit in the web application changes only the bib of
\* the addressed finish events: the number of events, their ids and their
\* elapsed times are unchanged, so the order of the events by elapsed time
\* and every place number are the same after the edit as before it.
C30_EditChangesOnlyBib ==
    [][EditStep =>
          /\ Len(results') = Len(results)
          /\ \A i \in Events :
                /\ results'[i].id = results[i].id
                /\ results'[i].finish_time = results[i].finish_time
                /\ results'[i].race_date = results[i].race_date
                /\ OverallPlace(i)' = OverallPlace(i)
          /\ FinishOrder(results') = FinishOrder(results)
          /\ UNCHANGED <<runners, race_type, sessionVars>>]_vars

\* the console never writes a second event of a bib: two events of bib 1,
\* recorded at the same elapsed time, one of them edited
C30_Witness ==
    /\ frontend = "console"
    /\ Len(results) = 2
    /\ results[1].bib = 1
    /\ results[2].bib = 1
    /\ results[1].finish_time = results[2].finish_time

====
